---- MODULE Spec2Model ----
(***************************************************************************)
(* Model of the symbol-resolution and relative-import core of the          *)
(* protobuf -> TypeScript compiler (src/proto/compiler/ts).                *)
(*                                                                         *)
(*   Spec        the field-type handler import_encoding_input_type of      *)
(*               file_to_folder.rs: BlockScope::resolve_path, one step per *)
(*               path segment, then DefinedId::path, proto_path_to_ts_path *)
(*               and get_relative_import, over a family of package trees.  *)
(*   SpecImport  get_relative_import as a pure function over bounded       *)
(*               TsPath arguments.                                         *)
(***************************************************************************)
EXTENDS Integers, Sequences, FiniteSets, TLC

VARIABLES
    files,              \* ProtoFile records of the package tree, by file id
    decls,              \* the declaration arena, by declaration id
    pc,                 \* position of the field-type handler
    scope,              \* BlockScope the handler was called with
    ids,                \* FieldType::IdPath(ids)
    idx,                \* index of the next segment of ids to resolve
    resolution,         \* result of the last resolution step
    prev,               \* the DefinedId the last step started from
    requested_path,     \* resolve_result.path()
    requested_ts_path,  \* the "to" side handed to get_relative_import
    current_file_path,  \* the "from" side handed to get_relative_import
    import_declaration, \* what get_relative_import returned
    ret,                \* what the handler returned
    gri_from,           \* SpecImport: argument from
    gri_to,             \* SpecImport: argument to
    gri_result,         \* SpecImport: result of get_relative_import
    message_entries,    \* SpecCompile: MessageDeclaration.entries, by message id
    cf_pc,              \* SpecCompile: position of file_to_folder
    cf_file,            \* SpecCompile: the ProtoFile handed to file_to_folder
    cf_pos,             \* SpecCompile: index of the next top-level declaration
    cf_res,             \* SpecCompile: the local res of file_to_folder
    cf_log,             \* SpecCompile: declarations whose insertion was begun
    cf_ret,             \* SpecCompile: what file_to_folder returned
    ty_pc,              \* SpecTypes: position of insert_message_types
    ty_todo,            \* SpecTypes: the messages still to be compiled
    ty_msg,             \* SpecTypes: message_scope.id()
    ty_pos,             \* SpecTypes: index of the next entry of the message
    ty_file,            \* SpecTypes: the types file under construction
    ty_members,         \* SpecTypes: members of the interface under construction
    ty_mapped,          \* SpecTypes: the Type the last field type was mapped to
    ty_files,           \* SpecTypes: the types files pushed so far, by message
    ty_ret,             \* SpecTypes: how the compilation ended
    argv,               \* SpecArgs: std::env::args()
    arg_pc,             \* SpecArgs: position of get_proto_folder_path
    arg_i,              \* SpecArgs: index of the next element of argv
    arg_state,          \* SpecArgs: the local state
    arg_res,            \* SpecArgs: the local res
    or_self,            \* SpecAst: the receiver of Type::or
    or_another,         \* SpecAst: the argument of Type::or
    or_res,             \* SpecAst: what Type::or returned
    fd_root,            \* SpecAst: the Folder the insertions are applied to
    fd_prev,            \* SpecAst: that Folder before the last call
    fd_call,            \* SpecAst: the last call, its argument and its result
    fd_calls            \* SpecAst: the number of calls made

vars == <<files, decls, pc, scope, ids, idx, resolution, prev, requested_path,
          requested_ts_path, current_file_path, import_declaration, ret,
          gri_from, gri_to, gri_result,
          message_entries, cf_pc, cf_file, cf_pos, cf_res, cf_log, cf_ret,
          ty_pc, ty_todo, ty_msg, ty_pos, ty_file, ty_members, ty_mapped, ty_files,
          ty_ret,
          argv, arg_pc, arg_i, arg_state, arg_res,
          or_self, or_another, or_res, fd_root, fd_prev, fd_call, fd_calls>>

resolver_vars == <<files, decls, pc, scope, ids, idx, resolution, prev,
                   requested_path, requested_ts_path, current_file_path,
                   import_declaration, ret>>

gri_vars == <<gri_from, gri_to, gri_result>>

compile_vars == <<message_entries, cf_pc, cf_file, cf_pos, cf_res, cf_log, cf_ret>>

types_vars == <<ty_pc, ty_todo, ty_msg, ty_pos, ty_file, ty_members, ty_mapped,
               ty_files, ty_ret>>

args_vars == <<argv, arg_pc, arg_i, arg_state, arg_res>>

ast_vars == <<or_self, or_another, or_res, fd_root, fd_prev, fd_call, fd_calls>>

(***************************************************************************)
(* Bounds                                                                  *)
(***************************************************************************)
MaxPathLen == 2     \* longest dotted identifier path a field type uses
MaxImports == 2     \* longest import list of the compiled file
MaxFolders == 2     \* SpecImport: most leading folders of a TsPath argument

Names == {"b", "c"}

Min(S) == CHOOSE x \in S : \A y \in S : x <= y

Last(s) == s[Len(s)]

Front(s) == SubSeq(s, 1, Len(s) - 1)

\* the element of a one-element set
TheOnly(S) == CHOOSE x \in S : TRUE

(***************************************************************************)
(* Data model: package.rs types as records                                 *)
(***************************************************************************)
NoDecl == "none"

NoFile == "none"

ImportPath(packages, file_name) == [packages |-> packages, file_name |-> file_name]

ProtoFile(name, path, imports, declarations) ==
    [name |-> name, path |-> path, imports |-> imports, declarations |-> declarations]

\* kind is "Message" or "Enum"; entries are the nested declarations of a
\* message in declared order; file and parent locate the declaration in the tree.
Declaration(kind, name, file, parent, entries) ==
    [kind |-> kind, name |-> name, file |-> file, parent |-> parent, entries |-> entries]

BlockScope(proto_file, parent_messages) ==
    [proto_file |-> proto_file, parent_messages |-> parent_messages]

NoScope == BlockScope(NoFile, <<>>)

\* Result<DefinedId, ProtoError>, with a third outcome for a panic.
\* tag is IdType: "DataType" (id is a declaration) or "Package" (id is a file).
Ok(s, tag, id) ==
    [kind |-> "Ok", scope |-> s, tag |-> tag, id |-> id, error_message |-> ""]

Err(error_message) ==
    [kind |-> "Err", scope |-> NoScope, tag |-> "", id |-> NoDecl,
     error_message |-> error_message]

Panic == [kind |-> "Panic", scope |-> NoScope, tag |-> "", id |-> NoDecl,
          error_message |-> ""]

None == [kind |-> "None", scope |-> NoScope, tag |-> "", id |-> NoDecl,
         error_message |-> ""]

(***************************************************************************)
(* Collaborators outside file_to_folder.rs                                 *)
(***************************************************************************)
FirstNamed(seq, name) ==
    LET hits == {i \in 1..Len(seq) : decls[seq[i]].name = name}
    IN  IF hits = {} THEN NoDecl ELSE seq[Min(hits)]

\* MessageDeclaration::resolve: the direct nested declaration called name
MessageDeclaration_resolve(m, name) == FirstNamed(decls[m].entries, name)

\* ProtoFile::resolve: the top-level declaration called name
ProtoFile_resolve(f, name) == FirstNamed(files[f].declarations, name)

IsPrefix(p, q) == Len(p) <= Len(q) /\ SubSeq(q, 1, Len(p)) = p

\* PackageTree::resolve_subtree: is there a package node at this path
resolve_subtree(path) == \E f \in DOMAIN files : IsPrefix(path, files[f].path)

\* subtree.files: the files directly in the package at path
subtree_files(path) == {f \in DOMAIN files : files[f].path = path}

RECURSIVE JoinSlash(_)
JoinSlash(path) ==
    IF path = <<>> THEN "" ELSE path[1] \o "/" \o JoinSlash(Tail(path))

\* ProtoFile::full_path
full_path(f) == JoinSlash(files[f].path) \o files[f].name

\* file_name_to_folder_name: a deterministic renaming of a file name
file_name_to_folder_name(s) ==
    CASE s = "a.proto" -> "a"
      [] s = "x.proto" -> "x"
      [] s = "y.proto" -> "y"
      [] s = "world.proto" -> "world"
      [] OTHER -> s

(***************************************************************************)
(* BlockScope                                                              *)
(***************************************************************************)
BlockScope_push(self, message) ==
    BlockScope(self.proto_file, <<message>> \o self.parent_messages)

BlockScope_new(proto_file) == BlockScope(proto_file, <<>>)

PathComponent(kind, name) == [kind |-> kind, name |-> name]

RECURSIVE Reverse(_)
Reverse(s) == IF s = <<>> THEN <<>> ELSE Reverse(Tail(s)) \o <<Head(s)>>

BlockScope_path(self) ==
    [i \in 1..Len(files[self.proto_file].path) |->
        PathComponent("Package", files[self.proto_file].path[i])]
    \o <<PathComponent("File", files[self.proto_file].name)>>
    \o [i \in 1..Len(self.parent_messages) |->
        PathComponent("Message", decls[Reverse(self.parent_messages)[i]].name)]

BlockScope_stack_trace(self) ==
    [i \in 1..Len(self.parent_messages) |-> decls[self.parent_messages[i]].name]
    \o <<full_path(self.proto_file)>>

RECURSIVE AppendLocations(_, _)
AppendLocations(error_message, locations) ==
    IF locations = <<>> THEN error_message
    ELSE AppendLocations(error_message \o "\n  in " \o Head(locations), Tail(locations))

BlockScope_error(self, message) ==
    Err(AppendLocations(message, BlockScope_stack_trace(self)))

\* ResolveInParents with the whole stack kept in the result instead of the
\* slice from the declaring message on
RECURSIVE ResolveInParents_whole_stack(_, _, _)
ResolveInParents_whole_stack(self, name, parent_index) ==
    IF parent_index > Len(self.parent_messages) THEN None
    ELSE LET declaration ==
                 MessageDeclaration_resolve(self.parent_messages[parent_index], name)
         IN  IF declaration # NoDecl
             THEN Ok(BlockScope(self.proto_file, self.parent_messages),
                     "DataType", declaration)
             ELSE ResolveInParents_whole_stack(self, name, parent_index + 1)

\* lines 314-328: the enclosing messages, from parent_index on
RECURSIVE ResolveInParents(_, _, _)
ResolveInParents(self, name, parent_index) ==
    IF parent_index > Len(self.parent_messages) THEN None
    ELSE LET declaration ==
                 MessageDeclaration_resolve(self.parent_messages[parent_index], name)
         IN  IF declaration # NoDecl
             THEN Ok(BlockScope(self.proto_file,
                                SubSeq(self.parent_messages, parent_index,
                                       Len(self.parent_messages))),
                     "DataType", declaration)
             ELSE ResolveInParents(self, name, parent_index + 1)

\* lines 329-338: the owning file's top level
ResolveInFile(self, name) ==
    LET declaration == ProtoFile_resolve(self.proto_file, name)
    IN  IF declaration # NoDecl
        THEN Ok(BlockScope(self.proto_file, <<>>), "DataType", declaration)
        ELSE None

\* LocateImport that tries the import's package alone first and the file's
\* whole package path last
LocateImport_outermost_first(self, imprt, k) ==
    LET existing == {j \in 0..k :
                        resolve_subtree(SubSeq(files[self.proto_file].path, 1, j)
                                        \o imprt.packages)}
        root_path == SubSeq(files[self.proto_file].path, 1, Min(existing))
                     \o imprt.packages
        found == {f \in subtree_files(root_path) : files[f].name = imprt.file_name}
    IN  IF existing = {} \/ found = {} THEN None
        ELSE Ok(BlockScope(self.proto_file, <<>>), "Package", CHOOSE f \in found : TRUE)

\* lines 350-384: the loop over root_path for one import; k is the number of
\* leading segments of the file's own path still in root_path
RECURSIVE LocateImport(_, _, _)
LocateImport(self, imprt, k) ==
    LET root_path == SubSeq(files[self.proto_file].path, 1, k) \o imprt.packages
        found == {f \in subtree_files(root_path) : files[f].name = imprt.file_name}
    IN  IF resolve_subtree(root_path)
        THEN IF found # {}
             THEN Ok(BlockScope(self.proto_file, <<>>), "Package",
                     CHOOSE f \in found : TRUE)
             ELSE None
        ELSE IF k = 0 THEN None
             ELSE LocateImport(self, imprt, k - 1)

\* lines 340-385: the imports in declared order, from import i on
RECURSIVE ResolveInImports(_, _, _)
ResolveInImports(self, name, i) ==
    LET imports == files[self.proto_file].imports
    IN  IF i > Len(imports) THEN None
        ELSE IF imports[i].packages = <<>> THEN Panic
        ELSE IF Last(imports[i].packages) # name
             THEN ResolveInImports(self, name, i + 1)
        ELSE LET located == LocateImport(self, imports[i],
                                         Len(files[self.proto_file].path))
             IN  IF located.kind = "Ok" THEN located
                 ELSE ResolveInImports(self, name, i + 1)

\* BlockScope_resolve with the file's top level searched before the
\* enclosing messages
BlockScope_resolve_file_first(self, name) ==
    LET in_parents == ResolveInParents(self, name, 1)
        in_file == ResolveInFile(self, name)
        in_imports == ResolveInImports(self, name, 1)
    IN  IF in_file.kind = "Ok" THEN in_file
        ELSE IF in_parents.kind = "Ok" THEN in_parents
        ELSE IF in_imports.kind # "None" THEN in_imports
        ELSE BlockScope_error(self, "Could not resolve name " \o name)

BlockScope_resolve(self, name) ==
    LET in_parents == ResolveInParents(self, name, 1)
        in_file == ResolveInFile(self, name)
        in_imports == ResolveInImports(self, name, 1)
    IN  IF in_parents.kind = "Ok" THEN in_parents
        ELSE IF in_file.kind = "Ok" THEN in_file
        ELSE IF in_imports.kind # "None" THEN in_imports
        ELSE BlockScope_error(self, "Could not resolve name " \o name)

(***************************************************************************)
(* DefinedId                                                               *)
(***************************************************************************)
\* DefinedId_resolve with a package reference resolved in the importing
\* file instead of the imported one
DefinedId_resolve_in_own_file(self, name) ==
    IF self.tag = "DataType"
    THEN IF decls[self.id].kind = "Enum"
         THEN BlockScope_error(self.scope,
                  "Cannot resolve " \o name \o "\n  in " \o decls[self.id].name)
         ELSE LET declaration == MessageDeclaration_resolve(self.id, name)
              IN  IF declaration # NoDecl
                  THEN Ok(BlockScope_push(self.scope, self.id), "DataType", declaration)
                  ELSE BlockScope_error(self.scope,
                           "Cannot resolve " \o name \o "\n  in " \o decls[self.id].name)
    ELSE BlockScope_resolve(BlockScope(self.scope.proto_file, <<>>), name)

\* DefinedId_resolve with an enum falling back to the scope it was found in
DefinedId_resolve_past_enum(self, name) ==
    IF self.tag = "DataType"
    THEN IF decls[self.id].kind = "Enum"
         THEN BlockScope_resolve(self.scope, name)
         ELSE LET declaration == MessageDeclaration_resolve(self.id, name)
              IN  IF declaration # NoDecl
                  THEN Ok(BlockScope_push(self.scope, self.id), "DataType", declaration)
                  ELSE BlockScope_error(self.scope,
                           "Cannot resolve " \o name \o "\n  in " \o decls[self.id].name)
    ELSE BlockScope_resolve(BlockScope(self.id, <<>>), name)

DefinedId_resolve(self, name) ==
    IF self.tag = "DataType"
    THEN IF decls[self.id].kind = "Enum"
         THEN BlockScope_error(self.scope,
                  "Cannot resolve " \o name \o "\n  in " \o decls[self.id].name)
         ELSE LET declaration == MessageDeclaration_resolve(self.id, name)
              IN  IF declaration # NoDecl
                  THEN Ok(BlockScope_push(self.scope, self.id), "DataType", declaration)
                  ELSE BlockScope_error(self.scope,
                           "Cannot resolve " \o name \o "\n  in " \o decls[self.id].name)
    ELSE BlockScope_resolve(BlockScope(self.id, <<>>), name)

DefinedId_path(self) ==
    BlockScope_path(self.scope)
    \o (IF self.tag = "DataType"
        THEN <<PathComponent(decls[self.id].kind, decls[self.id].name)>>
        ELSE <<PathComponent("Package", files[self.id].name)>>)

(***************************************************************************)
(* TsPath, proto_path_to_ts_path, get_relative_import                      *)
(***************************************************************************)
TsPathComponent(kind, name) == [kind |-> kind, name |-> name]

is_declaration(c) == c.kind \in {"Enum", "Interface", "Function"}

is_file(c) == c.kind = "File"

is_folder(c) == c.kind = "Folder"

\* TranslateComponent with the file name used as the folder name unchanged
TranslateComponent_unrenamed(p) ==
    CASE p.kind = "Package" -> TsPathComponent("Folder", p.name)
      [] p.kind = "File" -> TsPathComponent("Folder", p.name)
      [] p.kind = "Message" -> TsPathComponent("Folder", p.name)
      [] p.kind = "Enum" -> TsPathComponent("File", p.name)

\* lines 252-267: what one PathComponent becomes
TranslateComponent(p) ==
    CASE p.kind = "Package" -> TsPathComponent("Folder", p.name)
      [] p.kind = "File" -> TsPathComponent("Folder", file_name_to_folder_name(p.name))
      [] p.kind = "Message" -> TsPathComponent("Folder", p.name)
      [] p.kind = "Enum" -> TsPathComponent("File", p.name)

proto_path_to_ts_path(proto_path) ==
    [i \in 1..Len(proto_path) |-> TranslateComponent(proto_path[i])]

message_name_to_encode_type_name(message_name) == message_name \o "EncodeInput"

\* ImportDeclaration with one named binding, or the abort of a failed assert
Import(imported_name, string_literal) ==
    [kind |-> "Import", imported_name |-> imported_name,
     string_literal |-> string_literal]

Abort == [kind |-> "Abort", imported_name |-> "", string_literal |-> ""]

NoImport == [kind |-> "None", imported_name |-> "", string_literal |-> ""]

\* StripCommon that strips common folders only
RECURSIVE StripCommon_folders_only(_, _)
StripCommon_folders_only(from, to) ==
    IF Len(from) > 0 /\ Len(to) > 0 /\ from[1] = to[1] /\ is_folder(from[1])
    THEN StripCommon_folders_only(Tail(from), Tail(to))
    ELSE <<from, to>>

\* StripCommon that strips nothing: the import is written from the root
StripCommon_nothing(from, to) == <<from, to>>

\* lines 572-575: drop the common leading components
RECURSIVE StripCommon(_, _)
StripCommon(from, to) ==
    IF Len(from) > 0 /\ Len(to) > 0 /\ from[1] = to[1]
    THEN StripCommon(Tail(from), Tail(to))
    ELSE <<from, to>>

\* FileString with the "/" put after each name instead of before it
RECURSIVE FileString_slash_after(_, _)
FileString_slash_after(file_string, to) ==
    IF to = <<>> \/ is_declaration(to[1]) THEN file_string
    ELSE FileString_slash_after(file_string \o to[1].name \o "/", Tail(to))

\* lines 582-590: "." then "/" and the name of each component before the
\* first declaration
RECURSIVE FileString(_, _)
FileString(file_string, to) ==
    IF to = <<>> \/ is_declaration(to[1]) THEN file_string
    ELSE FileString(file_string \o "/" \o to[1].name, Tail(to))

\* ClimbString that climbs once however many folders from has left
ClimbString_once(import_string, from) ==
    IF Len(from) > 0 /\ is_folder(from[1])
    THEN import_string \o "../"
    ELSE import_string

\* lines 606-609: one "../" per leading folder of from
RECURSIVE ClimbString(_, _)
ClimbString(import_string, from) ==
    IF Len(from) > 0 /\ is_folder(from[1])
    THEN ClimbString(import_string \o "../", Tail(from))
    ELSE import_string

\* lines 611-617: the leading folders of to, each followed by "/"
RECURSIVE DescendString(_, _)
DescendString(import_string, to) ==
    IF Len(to) > 0 /\ is_folder(to[1])
    THEN DescendString(import_string \o to[1].name \o "/", Tail(to))
    ELSE import_string

RECURSIVE SkipFolders(_)
SkipFolders(to) ==
    IF Len(to) > 0 /\ is_folder(to[1]) THEN SkipFolders(Tail(to)) ELSE to

\* lines 604-631, entered with the stripped paths
ParentFolderImport(from, to, imported_name) ==
    LET rest == SkipFolders(to)
    IN  IF ~is_file(rest[1]) THEN Abort
        ELSE Import(imported_name,
                    DescendString(ClimbString("", from), to) \o rest[1].name)

get_relative_import(from0, to0) ==
    IF to0 = <<>> THEN Abort
    ELSE IF ~is_declaration(Last(to0)) THEN Abort
    ELSE LET from == StripCommon(from0, to0)[1]
             to == StripCommon(from0, to0)[2]
         IN  IF Len(from) = 0 THEN Abort
             ELSE IF Len(to) = 0 THEN Abort
             ELSE IF is_file(from[1])
                  THEN Import(Last(to).name, FileString(".", to))
                  ELSE ParentFolderImport(from, to, Last(to).name)

(***************************************************************************)
(* import_encoding_input_type (file_to_folder.rs)                          *)
(***************************************************************************)
NoType == "none"

try_get_predefined_type(s) ==
    CASE s = "bool" -> "Boolean"
      [] s = "string" -> "String"
      [] s \in {"int32", "uint32", "float"} -> "Number"
      [] s = "bytes" -> "TypeReference(Uint8Array)"
      [] OTHER -> NoType

\* Result<Type, ProtoError> of the handler, or its panic
Returned(kind, type, error_message) ==
    [kind |-> kind, type |-> type, error_message |-> error_message]

NotReturned == Returned("None", NoType, "")

\* lines 527-542: the "to" side of the import
RequestedTsPath(resolve_result) ==
    proto_path_to_ts_path(DefinedId_path(resolve_result))
    \o (IF decls[resolve_result.id].kind = "Enum"
        THEN <<TsPathComponent("Enum", decls[resolve_result.id].name)>>
        ELSE <<TsPathComponent("File", "types"),
               TsPathComponent("Interface",
                   message_name_to_encode_type_name(decls[resolve_result.id].name))>>)

\* lines 544-545: the "from" side of the import
CurrentFilePath(self) ==
    proto_path_to_ts_path(BlockScope_path(self)) \o <<TsPathComponent("File", "types")>>

(***************************************************************************)
(* file_to_folder (file_to_folder.rs): the generated folder tree           *)
(***************************************************************************)
\* package.rs FieldType
IdPath(path) == [tag |-> "IdPath", ids |-> path]

Repeated(field_type) == [tag |-> "Repeated", of |-> field_type]

Map(key, value) == [tag |-> "Map", key |-> key, value |-> value]

\* package.rs MessageEntry; json_name is what Field::json_name() returns
Field(name, json_name, field_type) ==
    [tag |-> "Field", name |-> name, json_name |-> json_name,
     field_type |-> field_type]

DeclarationEntry(id) == [tag |-> "Declaration", id |-> id]

OneOf(name) == [tag |-> "OneOf", name |-> name]

\* ast.rs Type
Type(tag) == [tag |-> tag]

ArrayType(t) == [tag |-> "ArrayType", of |-> t]

RecordType(key, value) == [tag |-> "Record", key |-> key, value |-> value]

PropertySignature(name, propertyType, optional) ==
    [name |-> name, propertyType |-> propertyType, optional |-> optional]

PropertySignature_new(name, propertyType) ==
    PropertySignature(name, propertyType, FALSE)

PropertySignature_new_optional(name, propertyType) ==
    PropertySignature(name, propertyType, TRUE)

\* ast.rs statements of a file
InterfaceDeclaration(name, members) ==
    [tag |-> "Interface", name |-> name, members |-> members]

EnumDeclaration(name) == [tag |-> "Enum", name |-> name]

\* ast.rs FolderEntry
File(name, statements) == [tag |-> "File", name |-> name, statements |-> statements]

Folder(name, entries) == [tag |-> "Folder", name |-> name, entries |-> entries]

NoFolder == Folder("", <<>>)

\* the messages of the three ways a call stops without a value
NotImplemented == "not yet implemented: Not implemented handling of OneOf Field"

AssertionFailed == "assertion failed"

UnwrapOnNone == "called Option::unwrap() on a None value"

Unreachable == "internal error: entered unreachable code"

\* Result<Type, ProtoError>, or a panic with its message
TypeResult(kind, type, error_message) ==
    [kind |-> kind, type |-> type, error_message |-> error_message]

\* resolve_path, lines 390-396, from segment i on
RECURSIVE ResolveRest(_, _, _)
ResolveRest(res, path, i) ==
    IF res.kind # "Ok" \/ i > Len(path) THEN res
    ELSE ResolveRest(DefinedId_resolve(res, path[i]), path, i + 1)

resolve_path(self, path) == ResolveRest(BlockScope_resolve(self, path[1]), path, 2)

\* lines 518-553: a field type given as a dotted identifier path
ImportIdPath(self, path) ==
    IF path = <<>> THEN TypeResult("Panic", Type(NoType), Unreachable)
    ELSE IF Len(path) = 1 /\ try_get_predefined_type(path[1]) # NoType
    THEN TypeResult("Ok", Type(try_get_predefined_type(path[1])), "")
    ELSE LET resolve_result == resolve_path(self, path)
         IN  IF resolve_result.kind = "Err"
             THEN TypeResult("Err", Type(NoType), resolve_result.error_message)
             ELSE IF resolve_result.kind = "Panic"
             THEN TypeResult("Panic", Type(NoType), UnwrapOnNone)
             ELSE IF resolve_result.tag = "Package"
             THEN TypeResult("Panic", Type(NoType), Unreachable)
             ELSE IF get_relative_import(CurrentFilePath(self),
                                         RequestedTsPath(resolve_result)).kind = "Abort"
             THEN TypeResult("Panic", Type(NoType), AssertionFailed)
             ELSE TypeResult("Ok", Type("Null"), "")

RECURSIVE import_encoding_input_type(_, _)
import_encoding_input_type(self, field_type) ==
    CASE field_type.tag = "IdPath" -> ImportIdPath(self, field_type.ids)
      [] field_type.tag = "Repeated" ->
            LET element_type == import_encoding_input_type(self, field_type.of)
            IN  IF element_type.kind # "Ok" THEN element_type
                ELSE TypeResult("Ok", ArrayType(element_type.type), "")
      [] field_type.tag = "Map" ->
            LET key_type == import_encoding_input_type(self, field_type.key)
                value_type == import_encoding_input_type(self, field_type.value)
            IN  IF key_type.kind # "Ok" THEN key_type
                ELSE IF value_type.kind # "Ok" THEN value_type
                ELSE TypeResult("Ok", RecordType(key_type.type, value_type.type), "")

\* the members of an interface under construction, or why the loop stopped
MembersResult(kind, members, error_message) ==
    [kind |-> kind, members |-> members, error_message |-> error_message]

\* EncodeMembers that returns an error for a oneof group instead of panicking
RECURSIVE EncodeMembers_oneof_is_error(_, _, _, _)
EncodeMembers_oneof_is_error(self, m, i, members) ==
    LET entries == message_entries[m]
    IN  IF i > Len(entries) THEN MembersResult("Ok", members, "")
        ELSE CASE entries[i].tag = "Field" ->
                    LET t == import_encoding_input_type(BlockScope_push(self, m),
                                                        entries[i].field_type)
                    IN  IF t.kind # "Ok"
                        THEN MembersResult(t.kind, <<>>, t.error_message)
                        ELSE EncodeMembers_oneof_is_error(self, m, i + 1,
                                 Append(members,
                                        PropertySignature_new_optional(
                                            entries[i].json_name, t.type)))
               [] entries[i].tag = "Declaration" ->
                    EncodeMembers_oneof_is_error(self, m, i + 1, members)
               [] entries[i].tag = "OneOf" ->
                    MembersResult("Err", <<>>, "oneof is not supported")

\* lines 472-485: the loop of insert_encoded_input_interface from entry i on
RECURSIVE EncodeMembers(_, _, _, _)
EncodeMembers(self, m, i, members) ==
    LET entries == message_entries[m]
    IN  IF i > Len(entries) THEN MembersResult("Ok", members, "")
        ELSE CASE entries[i].tag = "Field" ->
                    LET t == import_encoding_input_type(BlockScope_push(self, m),
                                                        entries[i].field_type)
                    IN  IF t.kind # "Ok"
                        THEN MembersResult(t.kind, <<>>, t.error_message)
                        ELSE EncodeMembers(self, m, i + 1,
                                 Append(members,
                                        PropertySignature_new_optional(
                                            entries[i].json_name, t.type)))
               [] entries[i].tag = "Declaration" ->
                    EncodeMembers(self, m, i + 1, members)
               [] entries[i].tag = "OneOf" ->
                    MembersResult("Panic", <<>>, NotImplemented)

\* DecodeMembers with a property for every nested declaration as well
RECURSIVE DecodeMembers_declarations_too(_, _, _)
DecodeMembers_declarations_too(m, i, members) ==
    LET entries == message_entries[m]
    IN  IF i > Len(entries) THEN MembersResult("Ok", members, "")
        ELSE CASE entries[i].tag = "Field" ->
                    DecodeMembers_declarations_too(m, i + 1,
                        Append(members,
                               PropertySignature_new(entries[i].json_name,
                                                     Type("Null"))))
               [] entries[i].tag = "Declaration" ->
                    DecodeMembers_declarations_too(m, i + 1,
                        Append(members,
                               PropertySignature_new(decls[entries[i].id].name,
                                                     Type("Null"))))
               [] entries[i].tag = "OneOf" ->
                    MembersResult("Panic", <<>>, NotImplemented)

\* lines 688-697: the loop of insert_decode_result_interface from entry i on
RECURSIVE DecodeMembers(_, _, _)
DecodeMembers(m, i, members) ==
    LET entries == message_entries[m]
    IN  IF i > Len(entries) THEN MembersResult("Ok", members, "")
        ELSE CASE entries[i].tag = "Field" ->
                    DecodeMembers(m, i + 1,
                        Append(members,
                               PropertySignature_new(entries[i].json_name,
                                                     Type("Null"))))
               [] entries[i].tag = "Declaration" -> DecodeMembers(m, i + 1, members)
               [] entries[i].tag = "OneOf" ->
                    MembersResult("Panic", <<>>, NotImplemented)

\* a folder after an insertion, or why the insertion stopped; log is the
\* declarations whose insertion was begun so far
FolderResult(kind, folder, error_message, log) ==
    [kind |-> kind, folder |-> folder, error_message |-> error_message, log |-> log]

Push(folder, entry) == Folder(folder.name, Append(folder.entries, entry))

\* insert_encoded_input_interface followed by insert_decode_result_interface
insert_message_types(message_folder, self, m, log) ==
    LET encoded == EncodeMembers(self, m, 1, <<>>)
        decoded == DecodeMembers(m, 1, <<>>)
    IN  IF encoded.kind # "Ok"
        THEN FolderResult(encoded.kind, message_folder, encoded.error_message, log)
        ELSE IF decoded.kind # "Ok"
        THEN FolderResult(decoded.kind, message_folder, decoded.error_message, log)
        ELSE FolderResult("Ok",
                 Push(message_folder,
                      File("types",
                           <<InterfaceDeclaration(
                                 message_name_to_encode_type_name(decls[m].name),
                                 encoded.members),
                             InterfaceDeclaration(decls[m].name, decoded.members)>>)),
                 "", log)

insert_encode(message_folder) == Push(message_folder, File("encode", <<>>))

insert_decode(message_folder) == Push(message_folder, File("decode", <<>>))

insert_enum_declaration(res, e) ==
    Push(res, File(decls[e].name, <<EnumDeclaration(decls[e].name)>>))

RECURSIVE insert_message_declaration(_, _, _, _)
RECURSIVE insert_children(_, _, _, _, _)

\* insert_children that compiles a nested message in the scope of its
\* parent, the stack not extended by the parent
insert_children_same_stack(message_folder, self, m, i, log) ==
    LET entries == message_entries[m]
    IN  IF i > Len(entries) THEN FolderResult("Ok", message_folder, "", log)
        ELSE IF entries[i].tag # "Declaration"
        THEN insert_children(message_folder, self, m, i + 1, log)
        ELSE IF decls[entries[i].id].kind = "Enum"
        THEN insert_children(insert_enum_declaration(message_folder, entries[i].id),
                             self, m, i + 1, Append(log, entries[i].id))
        ELSE TheOnly({IF inserted.kind # "Ok" THEN inserted
                      ELSE insert_children(inserted.folder, self, m, i + 1,
                                           inserted.log) :
                      inserted \in {insert_message_declaration(
                                        message_folder, self, entries[i].id, log)}})

\* lines 730-752: the loop of insert_children from entry i on
insert_children(message_folder, self, m, i, log) ==
    LET entries == message_entries[m]
    IN  IF i > Len(entries) THEN FolderResult("Ok", message_folder, "", log)
        ELSE IF entries[i].tag # "Declaration"
        THEN insert_children(message_folder, self, m, i + 1, log)
        ELSE IF decls[entries[i].id].kind = "Enum"
        THEN insert_children(insert_enum_declaration(message_folder, entries[i].id),
                             self, m, i + 1, Append(log, entries[i].id))
        ELSE TheOnly({IF inserted.kind # "Ok" THEN inserted
                      ELSE insert_children(inserted.folder, self, m, i + 1,
                                           inserted.log) :
                      inserted \in {insert_message_declaration(
                                        message_folder,
                                        BlockScope(self.proto_file,
                                                   <<m>> \o self.parent_messages),
                                        entries[i].id, log)}})

\* lines 435-438, entered with the types file inserted
InsertRest(message_parent_folder, self, m, typed) ==
    TheOnly({IF children.kind # "Ok"
             THEN FolderResult(children.kind, message_parent_folder,
                               children.error_message, children.log)
             ELSE FolderResult("Ok", Push(message_parent_folder, children.folder),
                               "", children.log) :
             children \in {insert_children(insert_decode(insert_encode(typed.folder)),
                                           self, m, 1, typed.log)}})

\* insert_message_declaration that attaches the folder of a message whose
\* types failed to the parent before it returns the failure
insert_message_declaration_attaches(message_parent_folder, self, m, log) ==
    TheOnly({IF typed.kind # "Ok"
             THEN FolderResult(typed.kind, Push(message_parent_folder, typed.folder),
                               typed.error_message, typed.log)
             ELSE InsertRest(message_parent_folder, self, m, typed) :
             typed \in {insert_message_types(Folder(decls[m].name, <<>>), self, m,
                                             Append(log, m))}})

\* lines 429-442; a failed step leaves message_parent_folder as it was
insert_message_declaration(message_parent_folder, self, m, log) ==
    TheOnly({IF typed.kind # "Ok"
             THEN FolderResult(typed.kind, message_parent_folder,
                               typed.error_message, typed.log)
             ELSE InsertRest(message_parent_folder, self, m, typed) :
             typed \in {insert_message_types(Folder(decls[m].name, <<>>), self, m,
                                             Append(log, m))}})

(***************************************************************************)
(* The package trees and scopes the handler is run on                      *)
(***************************************************************************)
\* File a.proto is the file being compiled:
\*   message M1 { message M2 { enum D3 } enum D4 }  enum D5
\* File x.proto:  message D6 { enum D7 }     The third file:  enum D8
Arena(n2, n3, n4, n5) ==
    [d \in {"M1", "M2", "D3", "D4", "D5", "D6", "D7", "D8"} |->
        CASE d = "M1" -> Declaration("Message", "c", "A", NoDecl, <<"M2", "D4">>)
          [] d = "M2" -> Declaration("Message", n2, "A", "M1", <<"D3">>)
          [] d = "D3" -> Declaration("Enum", n3, "A", "M2", <<>>)
          [] d = "D4" -> Declaration("Enum", n4, "A", "M1", <<>>)
          [] d = "D5" -> Declaration("Enum", n5, "A", NoDecl, <<>>)
          [] d = "D6" -> Declaration("Message", "c", "X", NoDecl, <<"D7">>)
          [] d = "D7" -> Declaration("Enum", "b", "X", "D6", <<>>)
          [] d = "D8" -> Declaration("Enum", "c", "Y", NoDecl, <<>>)]

PathsA == {<<>>, <<"p">>, <<"p", "q">>}

PathsX == {<<"b">>, <<"p", "q", "b">>}

PathsY == {<<"p", "b">>, <<"c">>}

NamesY == {"x.proto", "y.proto"}

ImportChoices == {ImportPath(<<"b">>, "x.proto"), ImportPath(<<>>, "x.proto")}

ImportLists == UNION {[1..n -> ImportChoices] : n \in 0..MaxImports}

Tree(pa, imports, px, py, ny) ==
    [f \in {"A", "X", "Y"} |->
        CASE f = "A" -> ProtoFile("a.proto", pa, imports, <<"M1", "D5">>)
          [] f = "X" -> ProtoFile("x.proto", px,
                                  <<ImportPath(<<"p", "b">>, "y.proto")>>, <<"D6">>)
          [] f = "Y" -> ProtoFile(ny, py, <<>>, <<"D8">>)]

\* insert_encoded_input_interface resolves the field types of a message in
\* the scope of its enclosing messages with the message itself pushed
CallScopes ==
    {BlockScope("A", <<"M1">>), BlockScope("A", <<"M2", "M1">>),
     BlockScope("X", <<"D6">>)}

IdPaths ==
    {<<"int32">>} \cup UNION {[1..n -> Names] : n \in 1..MaxPathLen}

ResolverIdle ==
    /\ pc = "idle"
    /\ scope = NoScope
    /\ ids = <<>>
    /\ idx = 0
    /\ resolution = None
    /\ prev = None
    /\ requested_path = <<>>
    /\ requested_ts_path = <<>>
    /\ current_file_path = <<>>
    /\ import_declaration = NoImport
    /\ ret = NotReturned

GriIdle ==
    /\ gri_from = <<>>
    /\ gri_to = <<>>
    /\ gri_result = NoImport

CompileIdle ==
    /\ message_entries = <<>>
    /\ cf_pc = "idle"
    /\ cf_file = NoFile
    /\ cf_pos = 0
    /\ cf_res = NoFolder
    /\ cf_log = <<>>
    /\ cf_ret = [kind |-> "None", folder |-> NoFolder, error_message |-> ""]

TypesIdle ==
    /\ ty_pc = "idle"
    /\ ty_todo = <<>>
    /\ ty_msg = NoDecl
    /\ ty_pos = 0
    /\ ty_file = File("", <<>>)
    /\ ty_members = <<>>
    /\ ty_mapped = Type(NoType)
    /\ ty_files = <<>>
    /\ ty_ret = ""

ArgsIdle ==
    /\ argv = <<>>
    /\ arg_pc = "idle"
    /\ arg_i = 0
    /\ arg_state = "ProtoFolderPath"
    /\ arg_res = [proto_folder_path |-> <<>>, out_folder_path |-> <<>>]

AstIdle ==
    /\ or_self = [tag |-> "none"]
    /\ or_another = [tag |-> "none"]
    /\ or_res = [tag |-> "none"]
    /\ fd_root = [tag |-> "Folder", name |-> "", entries |-> <<>>]
    /\ fd_prev = [tag |-> "Folder", name |-> "", entries |-> <<>>]
    /\ fd_call = [op |-> "none"]
    /\ fd_calls = 0

Init ==
    /\ \E n2 \in Names, n3 \in Names, n4 \in Names, n5 \in Names :
           decls = Arena(n2, n3, n4, n5)
    /\ \E pa \in PathsA, imports \in ImportLists, px \in PathsX, py \in PathsY,
          ny \in NamesY :
           files = Tree(pa, imports, px, py, ny)
    /\ ResolverIdle
    /\ GriIdle
    /\ CompileIdle
    /\ TypesIdle
    /\ ArgsIdle
    /\ AstIdle

\* a field of type IdPath(ids) is met in a message compiled in scope s
Call ==
    /\ pc = "idle"
    /\ \E s \in CallScopes, path \in IdPaths :
           /\ scope' = s
           /\ ids' = path
    /\ pc' = "called"
    /\ UNCHANGED <<files, decls, idx, resolution, prev, requested_path,
                   requested_ts_path, current_file_path, import_declaration, ret>>
    /\ UNCHANGED <<gri_vars, compile_vars, types_vars, args_vars, ast_vars>>

\* lines 519-524
ReturnPredefined ==
    /\ pc = "called"
    /\ Len(ids) = 1
    /\ try_get_predefined_type(ids[1]) # NoType
    /\ ret' = Returned("Ok", try_get_predefined_type(ids[1]), "")
    /\ pc' = "done"
    /\ UNCHANGED <<files, decls, scope, ids, idx, resolution, prev, requested_path,
                   requested_ts_path, current_file_path, import_declaration>>
    /\ UNCHANGED <<gri_vars, compile_vars, types_vars, args_vars, ast_vars>>

\* resolve_path, line 391
ResolveFirst ==
    /\ pc = "called"
    /\ ~(Len(ids) = 1 /\ try_get_predefined_type(ids[1]) # NoType)
    /\ resolution' = BlockScope_resolve(scope, ids[1])
    /\ idx' = 2
    /\ pc' = "resolving"
    /\ UNCHANGED <<files, decls, scope, ids, prev, requested_path,
                   requested_ts_path, current_file_path, import_declaration, ret>>
    /\ UNCHANGED <<gri_vars, compile_vars, types_vars, args_vars, ast_vars>>

\* ResolveNext that resolves the same segment again and never moves on
ResolveNext_never_advances ==
    /\ pc = "resolving"
    /\ resolution.kind = "Ok"
    /\ idx <= Len(ids)
    /\ prev' = resolution
    /\ UNCHANGED <<files, decls, pc, scope, ids, idx, resolution, requested_path,
                   requested_ts_path, current_file_path, import_declaration, ret>>
    /\ UNCHANGED <<gri_vars, compile_vars, types_vars, args_vars, ast_vars>>

\* resolve_path, lines 392-394
ResolveNext ==
    /\ pc = "resolving"
    /\ resolution.kind = "Ok"
    /\ idx <= Len(ids)
    /\ prev' = resolution
    /\ resolution' = DefinedId_resolve(resolution, ids[idx])
    /\ idx' = idx + 1
    /\ UNCHANGED <<files, decls, pc, scope, ids, requested_path,
                   requested_ts_path, current_file_path, import_declaration, ret>>
    /\ UNCHANGED <<gri_vars, compile_vars, types_vars, args_vars, ast_vars>>

\* the ? of lines 391, 393 and 525
ResolveFailed ==
    /\ pc = "resolving"
    /\ resolution.kind # "Ok"
    /\ ret' = Returned(resolution.kind, NoType, resolution.error_message)
    /\ pc' = "done"
    /\ UNCHANGED <<files, decls, scope, ids, idx, resolution, prev, requested_path,
                   requested_ts_path, current_file_path, import_declaration>>
    /\ UNCHANGED <<gri_vars, compile_vars, types_vars, args_vars, ast_vars>>

\* lines 526-553
Translate ==
    /\ pc = "resolving"
    /\ resolution.kind = "Ok"
    /\ idx > Len(ids)
    /\ requested_path' = DefinedId_path(resolution)
    /\ IF resolution.tag = "Package"
       THEN /\ ret' = Returned("Panic", NoType, "")
            /\ UNCHANGED <<requested_ts_path, current_file_path, import_declaration>>
       ELSE /\ requested_ts_path' = RequestedTsPath(resolution)
            /\ current_file_path' = CurrentFilePath(scope)
            /\ import_declaration' =
                   get_relative_import(CurrentFilePath(scope), RequestedTsPath(resolution))
            /\ ret' = IF import_declaration'.kind = "Abort"
                      THEN Returned("Panic", NoType, "")
                      ELSE Returned("Ok", "Null", "")
    /\ pc' = "done"
    /\ UNCHANGED <<files, decls, scope, ids, idx, resolution, prev>>
    /\ UNCHANGED <<gri_vars, compile_vars, types_vars, args_vars, ast_vars>>

\* the handler is done; the next field is compiled
Return ==
    /\ pc = "done"
    /\ pc' = "idle"
    /\ scope' = NoScope
    /\ ids' = <<>>
    /\ idx' = 0
    /\ resolution' = None
    /\ prev' = None
    /\ requested_path' = <<>>
    /\ requested_ts_path' = <<>>
    /\ current_file_path' = <<>>
    /\ import_declaration' = NoImport
    /\ ret' = NotReturned
    /\ UNCHANGED <<files, decls>>
    /\ UNCHANGED <<gri_vars, compile_vars, types_vars, args_vars, ast_vars>>

Next ==
    \/ Call
    \/ ReturnPredefined
    \/ ResolveFirst
    \/ ResolveNext
    \/ ResolveFailed
    \/ Translate
    \/ Return

Spec == Init /\ [][Next]_vars

\* the package trees of Init around one arena of declarations, in which b
\* is declared by the inner message of a.proto and is found through an
\* import from the outer one
InitLive ==
    /\ decls = Arena("c", "b", "c", "c")
    /\ \E pa \in PathsA, imports \in ImportLists, px \in PathsX, py \in PathsY,
          ny \in NamesY :
           files = Tree(pa, imports, px, py, ny)
    /\ ResolverIdle
    /\ GriIdle
    /\ CompileIdle
    /\ TypesIdle
    /\ ArgsIdle
    /\ AstIdle

\* the compiler is one sequential program: a step that can be taken is taken
SpecLive == InitLive /\ [][Next]_vars /\ WF_vars(Next)

(***************************************************************************)
(* Properties of BlockScope::resolve and resolve_path                      *)
(***************************************************************************)
\* message m directly declares a nested declaration called name
Declares(m, name) == \E i \in 1..Len(decls[m].entries) : decls[decls[m].entries[i]].name = name

\* file f declares a top-level declaration called name
FileDeclares(f, name) ==
    \E i \in 1..Len(files[f].declarations) : decls[files[f].declarations[i]].name = name

\* the state right after a call of BlockScope::resolve returned: the first
\* step of resolve_path, or a later step taken from a package reference
ResolveReturned ==
    /\ pc = "resolving"
    /\ \/ idx = 2
       \/ idx > 2 /\ prev.kind = "Ok" /\ prev.tag = "Package"

ResolveScope == IF idx = 2 THEN scope ELSE BlockScope(prev.id, <<>>)

ResolveName == ids[idx - 1]

EnclosingDeclaring(s, name) ==
    {i \in 1..Len(s.parent_messages) : Declares(s.parent_messages[i], name)}

ImportsNamed(f, name) ==
    {i \in 1..Len(files[f].imports) :
        /\ files[f].imports[i].packages # <<>>
        /\ Last(files[f].imports[i].packages) = name}

\* the files an import of file f denotes: those called file_name in the
\* package (a prefix of f's package path) + (the import's package segments)
ImportTargets(f, imprt) ==
    {g \in DOMAIN files :
        /\ files[g].name = imprt.file_name
        /\ \E k \in 0..Len(files[f].path) :
               files[g].path = SubSeq(files[f].path, 1, k) \o imprt.packages}

\* C1: shadowing. A name declared by an enclosing message resolves to the
\* declaration of the innermost enclosing message that declares it, whatever
\* outer messages, the file's top level and the imports hold; a name declared
\* by no enclosing message but by the file's top level resolves to the
\* top-level declaration even when an import matches; a package reference
\* is returned only when neither declares the name.
C1_Shadowing ==
    ResolveReturned =>
        LET s == ResolveScope
            name == ResolveName
            inner == EnclosingDeclaring(s, name)
        IN  /\ inner # {} =>
                /\ resolution.kind = "Ok"
                /\ resolution.tag = "DataType"
                /\ decls[resolution.id].name = name
                /\ decls[resolution.id].parent = s.parent_messages[Min(inner)]
            /\ (inner = {} /\ FileDeclares(s.proto_file, name)) =>
                /\ resolution.kind = "Ok"
                /\ resolution.tag = "DataType"
                /\ decls[resolution.id].name = name
                /\ decls[resolution.id].parent = NoDecl
                /\ decls[resolution.id].file = s.proto_file
            /\ (resolution.kind = "Ok" /\ resolution.tag = "Package") =>
                /\ inner = {}
                /\ ~FileDeclares(s.proto_file, name)

\* the innermost of two enclosing messages, the outer one, the top level and
\* an import all match the name, and the innermost one's declaration is returned
C1_Witness ==
    /\ ResolveReturned
    /\ Len(ResolveScope.parent_messages) = 2
    /\ EnclosingDeclaring(ResolveScope, ResolveName) = {1, 2}
    /\ FileDeclares(ResolveScope.proto_file, ResolveName)
    /\ \E i \in ImportsNamed(ResolveScope.proto_file, ResolveName) :
           ImportTargets(ResolveScope.proto_file,
                         files[ResolveScope.proto_file].imports[i]) # {}
    /\ resolution.kind = "Ok"
    /\ decls[resolution.id].parent = ResolveScope.parent_messages[1]

\* C2: chained imports. When no enclosing message and no top-level
\* declaration is called name, every import of the file names a package, and
\* an import whose last package segment is name denotes an existing file,
\* resolve(name) succeeds with a package reference to a file an import
\* called name denotes.
C2_ChainedImportsResolve ==
    ResolveReturned =>
        LET s == ResolveScope
            name == ResolveName
            f == s.proto_file
            targets == UNION {ImportTargets(f, files[f].imports[i]) :
                                  i \in ImportsNamed(f, name)}
        IN  (/\ EnclosingDeclaring(s, name) = {}
             /\ ~FileDeclares(f, name)
             /\ \A i \in 1..Len(files[f].imports) : files[f].imports[i].packages # <<>>
             /\ targets # {})
            => /\ resolution.kind = "Ok"
               /\ resolution.tag = "Package"
               /\ resolution.id \in targets

\* the text BlockScope::error is to produce for an unresolved name: the
\* enclosing message names innermost first, then the file's full path
RECURSIVE TraceText(_)
TraceText(locations) ==
    IF locations = <<>> THEN ""
    ELSE "\n  in " \o Head(locations) \o TraceText(Tail(locations))

ExpectedTrace(s) ==
    [i \in 1..Len(s.parent_messages) |-> decls[s.parent_messages[i]].name]
    \o <<full_path(s.proto_file)>>

\* C3: a name that no enclosing message and no top-level declaration carries
\* and that no import denoting an existing file is called makes resolve
\* return an error whose trace is the enclosing message names innermost
\* first and then the file's full path.
C3_UnresolvedIsError ==
    ResolveReturned =>
        LET s == ResolveScope
            name == ResolveName
            f == s.proto_file
        IN  (/\ EnclosingDeclaring(s, name) = {}
             /\ ~FileDeclares(f, name)
             /\ \A i \in ImportsNamed(f, name) :
                    ImportTargets(f, files[f].imports[i]) = {})
            => /\ resolution.kind = "Err"
               /\ resolution.error_message =
                      "Could not resolve name " \o name \o TraceText(ExpectedTrace(s))

\* the state right after a step of resolve_path past the first segment
StepReturned ==
    /\ pc = "resolving"
    /\ idx > 2
    /\ prev.kind = "Ok"

\* C4: dotted paths. A segment after the first is resolved in the previously
\* resolved declaration: in a message M the result is a declaration nested
\* directly in M and its enclosing-message stack is M followed by M's own
\* stack; in a package reference to file F the result is looked up from F's
\* top level, with F as owning file and an empty enclosing-message stack.
C4_DottedPath ==
    (StepReturned /\ resolution.kind = "Ok") =>
        /\ (prev.tag = "DataType" /\ decls[prev.id].kind = "Message") =>
               /\ resolution.tag = "DataType"
               /\ resolution.scope.parent_messages[1] = prev.id
               /\ Tail(resolution.scope.parent_messages) = prev.scope.parent_messages
               /\ resolution.scope.proto_file = prev.scope.proto_file
               /\ decls[resolution.id].parent = prev.id
               /\ decls[resolution.id].name = ids[idx - 1]
        /\ prev.tag = "Package" =>
               /\ resolution.scope.proto_file = prev.id
               /\ resolution.scope.parent_messages = <<>>
               /\ resolution.tag = "DataType" =>
                      /\ decls[resolution.id].file = prev.id
                      /\ decls[resolution.id].parent = NoDecl
                      /\ decls[resolution.id].name = ids[idx - 1]

\* a declaration of an imported file is reached through the package reference
C4_Witness ==
    /\ StepReturned
    /\ prev.tag = "Package"
    /\ prev.id # scope.proto_file
    /\ resolution.kind = "Ok"
    /\ resolution.tag = "DataType"
    /\ decls[resolution.id].file = prev.id

\* C5: enums are terminal. Resolving any further segment in an enum is an
\* error, never a declaration, and the handler returns that error.
C5_EnumsTerminal ==
    /\ (StepReturned /\ prev.tag = "DataType" /\ decls[prev.id].kind = "Enum") =>
           resolution.kind = "Err"
    /\ (pc = "done" /\ prev.kind = "Ok" /\ prev.tag = "DataType"
            /\ decls[prev.id].kind = "Enum") =>
           ret.kind = "Err"

\* a segment that could be resolved in the enum's surroundings follows an enum
C5_Witness ==
    /\ StepReturned
    /\ prev.tag = "DataType"
    /\ decls[prev.id].kind = "Enum"
    /\ FileDeclares(prev.scope.proto_file, ids[idx - 1])
    /\ resolution.kind = "Err"

\* the enclosing messages of declaration d, outermost first
RECURSIVE Ancestors(_)
Ancestors(d) ==
    IF decls[d].parent = NoDecl THEN <<>>
    ELSE Ancestors(decls[d].parent) \o <<decls[d].parent>>

\* the canonical path of declaration d, read off the declaration tree
CanonicalPath(d) ==
    [i \in 1..Len(files[decls[d].file].path) |->
        [kind |-> "Package", name |-> files[decls[d].file].path[i]]]
    \o <<[kind |-> "File", name |-> files[decls[d].file].name]>>
    \o [i \in 1..Len(Ancestors(d)) |->
        [kind |-> "Message", name |-> decls[Ancestors(d)[i]].name]]
    \o <<[kind |-> decls[d].kind, name |-> decls[d].name]>>

\* C6: the path of every declaration resolve or resolve_path returns is the
\* package path of the file that declares it, that file's name, the
\* messages enclosing the declaration outermost first, and its own name
\* tagged Message or Enum.
C6_DeclarationPath ==
    (pc = "resolving" /\ resolution.kind = "Ok" /\ resolution.tag = "DataType") =>
        DefinedId_path(resolution) = CanonicalPath(resolution.id)

\* a declaration of the outer of two enclosing messages is found from the inner
C6_Witness ==
    /\ pc = "resolving"
    /\ idx = 2
    /\ Len(scope.parent_messages) = 2
    /\ resolution.kind = "Ok"
    /\ resolution.tag = "DataType"
    /\ decls[resolution.id].parent = scope.parent_messages[2]

\* the segment a canonical-path segment is translated to
ExpectedTsSegment(p) ==
    IF p.kind = "Package" THEN [kind |-> "Folder", name |-> p.name]
    ELSE IF p.kind = "File"
         THEN [kind |-> "Folder", name |-> file_name_to_folder_name(p.name)]
    ELSE IF p.kind = "Message" THEN [kind |-> "Folder", name |-> p.name]
    ELSE [kind |-> "File", name |-> p.name]

\* C7: path translation. Both sides of the import are translated segment by
\* segment, in order: Package to Folder, File to the Folder of the renamed
\* file, Message to Folder, Enum to a File followed by the Enum symbol.
C7_PathTranslation ==
    (pc = "done" /\ import_declaration # NoImport) =>
        LET from_proto == BlockScope_path(scope)
            to_proto == requested_path
        IN  /\ Len(current_file_path) = Len(from_proto) + 1
            /\ \A i \in 1..Len(from_proto) :
                   current_file_path[i] = ExpectedTsSegment(from_proto[i])
            /\ Len(requested_ts_path) >= Len(to_proto) + 1
            /\ \A i \in 1..Len(to_proto) :
                   requested_ts_path[i] = ExpectedTsSegment(to_proto[i])
            /\ Last(to_proto).kind = "Enum" =>
                   /\ Len(requested_ts_path) = Len(to_proto) + 1
                   /\ Last(requested_ts_path) =
                          [kind |-> "Enum", name |-> Last(to_proto).name]

\* an enum of an imported file is referenced from a nested message
C7_Witness ==
    /\ pc = "done"
    /\ import_declaration.kind = "Import"
    /\ Last(requested_path).kind = "Enum"
    /\ Len(requested_path) >= 4
    /\ Len(scope.parent_messages) = 2
    /\ resolution.scope.proto_file # scope.proto_file

(***************************************************************************)
(* get_relative_import over bounded arguments                              *)
(***************************************************************************)
FolderSeqs ==
    UNION {[1..n -> {TsPathComponent("Folder", "Hello"),
                     TsPathComponent("Folder", "Goodbye")}] : n \in 0..MaxFolders}

FileTails == {<<>>, <<TsPathComponent("File", "types")>>,
              <<TsPathComponent("File", "defs")>>}

DeclarationTails == {<<>>, <<TsPathComponent("Enum", "Test")>>,
                     <<TsPathComponent("Interface", "TestEncodeInput")>>,
                     <<TsPathComponent("Function", "encode")>>}

FromPaths == {folders \o file : folders \in FolderSeqs, file \in FileTails}

ToPaths == {folders \o file \o declaration :
                folders \in FolderSeqs, file \in FileTails,
                declaration \in DeclarationTails}

InitImport ==
    /\ decls = Arena("b", "b", "b", "b")
    /\ files = Tree(<<>>, <<>>, <<"b">>, <<"c">>, "y.proto")
    /\ ResolverIdle
    /\ gri_from \in FromPaths
    /\ gri_to \in ToPaths
    /\ gri_result = NoImport
    /\ CompileIdle
    /\ TypesIdle
    /\ ArgsIdle
    /\ AstIdle

CallGetRelativeImport ==
    /\ gri_result = NoImport
    /\ gri_result' = get_relative_import(gri_from, gri_to)
    /\ UNCHANGED <<gri_from, gri_to>>
    /\ UNCHANGED <<resolver_vars, compile_vars, types_vars, args_vars, ast_vars>>

NextImport == CallGetRelativeImport

SpecImport == InitImport /\ [][NextImport]_vars

\* the number of leading components from and to have in common
CommonLen(from, to) ==
    LET agree == {k \in 0..Len(from) :
                     k <= Len(to) /\ \A i \in 1..k : from[i] = to[i]}
    IN  CHOOSE k \in agree : \A j \in agree : j <= k

Remaining(path, from, to) == SubSeq(path, CommonLen(from, to) + 1, Len(path))

\* from is folders then one file; to is folders, one file, one declaration
IsFilePath(from) ==
    /\ Len(from) >= 1
    /\ Last(from).kind = "File"
    /\ \A i \in 1..(Len(from) - 1) : from[i].kind = "Folder"

IsDeclarationPath(to) ==
    /\ Len(to) >= 2
    /\ Last(to).kind \in {"Enum", "Interface", "Function"}
    /\ to[Len(to) - 1].kind = "File"
    /\ \A i \in 1..(Len(to) - 2) : to[i].kind = "Folder"

RECURSIVE JoinWith(_, _)
JoinWith(names, separator) ==
    IF names = <<>> THEN ""
    ELSE IF Len(names) = 1 THEN names[1]
    ELSE names[1] \o separator \o JoinWith(Tail(names), separator)

RECURSIVE Repeat(_, _)
Repeat(text, n) == IF n = 0 THEN "" ELSE text \o Repeat(text, n - 1)

ComponentNames(path) == [i \in 1..Len(path) |-> path[i].name]

LeadingFolders(path) ==
    LET n == CHOOSE k \in 0..Len(path) :
                 /\ \A i \in 1..k : path[i].kind = "Folder"
                 /\ k < Len(path) => path[k + 1].kind # "Folder"
    IN  SubSeq(path, 1, n)

\* C8: same folder. For a file path from and a declaration path to, when
\* the first component of from left after stripping the common prefix is a
\* File, the specifier is "./" and the remaining components of to before
\* its declaration joined by "/", and the import names the declaration.
C8_SameFolder ==
    (/\ gri_result # NoImport
     /\ IsFilePath(gri_from)
     /\ IsDeclarationPath(gri_to)
     /\ Remaining(gri_from, gri_from, gri_to) # <<>>
     /\ Remaining(gri_from, gri_from, gri_to)[1].kind = "File")
    => gri_result =
           [kind |-> "Import",
            imported_name |-> Last(gri_to).name,
            string_literal |->
                "./" \o JoinWith(ComponentNames(Front(Remaining(gri_to, gri_from, gri_to))),
                                 "/")]

\* from Hello/types to Hello/defs::Test gives import { Test } from "./defs"
C8_Witness ==
    /\ gri_from = <<[kind |-> "Folder", name |-> "Hello"], [kind |-> "File", name |-> "types"]>>
    /\ gri_to = <<[kind |-> "Folder", name |-> "Hello"], [kind |-> "File", name |-> "defs"],
                  [kind |-> "Enum", name |-> "Test"]>>
    /\ gri_result = [kind |-> "Import", imported_name |-> "Test", string_literal |-> "./defs"]

\* C9: different folders. For a file path from and a declaration path to,
\* when the first component of from left after stripping the common prefix
\* is a Folder, the specifier is one "../" per remaining folder of from,
\* the remaining folders of to each followed by "/", and the name of to's
\* file, and the import names the declaration.
C9_ParentFolder ==
    (/\ gri_result # NoImport
     /\ IsFilePath(gri_from)
     /\ IsDeclarationPath(gri_to)
     /\ Remaining(gri_from, gri_from, gri_to) # <<>>
     /\ Remaining(gri_from, gri_from, gri_to)[1].kind = "Folder")
    => LET from == Remaining(gri_from, gri_from, gri_to)
           to == Remaining(gri_to, gri_from, gri_to)
           folders == ComponentNames(LeadingFolders(to))
       IN  gri_result =
               [kind |-> "Import",
                imported_name |-> Last(gri_to).name,
                string_literal |->
                    Repeat("../", Len(LeadingFolders(from)))
                    \o JoinWith([i \in 1..Len(folders) |-> folders[i] \o "/"], "")
                    \o gri_to[Len(gri_to) - 1].name]

\* from Goodbye/types to Hello/defs::Test gives import { Test } from "../Hello/defs"
C9_Witness ==
    /\ gri_from = <<[kind |-> "Folder", name |-> "Goodbye"], [kind |-> "File", name |-> "types"]>>
    /\ gri_to = <<[kind |-> "Folder", name |-> "Hello"], [kind |-> "File", name |-> "defs"],
                  [kind |-> "Enum", name |-> "Test"]>>
    /\ gri_result = [kind |-> "Import", imported_name |-> "Test",
                     string_literal |-> "../Hello/defs"]

\* C10: get_relative_import aborts, and returns no import, whenever
\* stripping the common prefix empties from or to or the last component of
\* to is not a declaration; a reference into the file from itself aborts.
C10_FailsLoudly ==
    (/\ gri_result # NoImport
     /\ \/ gri_to = <<>>
        \/ Last(gri_to).kind \notin {"Enum", "Interface", "Function"}
        \/ CommonLen(gri_from, gri_to) = Len(gri_from)
        \/ CommonLen(gri_from, gri_to) = Len(gri_to))
    => gri_result.kind = "Abort"

\* from Hello/types to Hello/types::Test aborts
C10_Witness ==
    /\ gri_from = <<[kind |-> "Folder", name |-> "Hello"], [kind |-> "File", name |-> "types"]>>
    /\ gri_to = gri_from \o <<[kind |-> "Enum", name |-> "Test"]>>
    /\ gri_result.kind = "Abort"

(***************************************************************************)
(* SpecCompile: file_to_folder run on world.proto of package hello         *)
(***************************************************************************)
MaxFields == 2      \* most fields and oneof groups message World declares

\* world.proto:
\*   message World { <entry 1>
\*                   message Inner { <entries> enum Kind message Deep { <entries> } }
\*                   <entry 2..> }
\*   enum Color
\*   message Other { <entries> }
WorldArena ==
    [d \in {"World", "Inner", "Kind", "Deep", "Color", "Other"} |->
        CASE d = "World" -> Declaration("Message", "World", "W", NoDecl, <<"Inner">>)
          [] d = "Inner" -> Declaration("Message", "Inner", "W", "World",
                                        <<"Kind", "Deep">>)
          [] d = "Kind" -> Declaration("Enum", "Kind", "W", "Inner", <<>>)
          [] d = "Deep" -> Declaration("Message", "Deep", "W", "Inner", <<>>)
          [] d = "Color" -> Declaration("Enum", "Color", "W", NoDecl, <<>>)
          [] d = "Other" -> Declaration("Message", "Other", "W", NoDecl, <<>>)]

WorldTree ==
    [f \in {"W"} |->
        ProtoFile("world.proto", <<"hello">>, <<>>, <<"World", "Color", "Other">>)]

OneOfChoice == [tag |-> "OneOf"]

\* what an entry of World may be: a field of one of these types, or a oneof
EntryChoices ==
    {IdPath(<<"int32">>), IdPath(<<"Other">>), IdPath(<<"World">>),
     IdPath(<<"Missing">>), IdPath(<<"Color">>), Repeated(IdPath(<<"Other">>)),
     Map(IdPath(<<"string">>), IdPath(<<"Other">>)),
     Map(IdPath(<<"Other">>), IdPath(<<"int32">>)),
     OneOfChoice}

InnerChoices ==
    {<<>>, <<IdPath(<<"int32">>)>>, <<IdPath(<<"Missing">>)>>, <<OneOfChoice>>,
     <<IdPath(<<"Inner">>)>>, <<IdPath(<<"Other">>)>>}

DeepChoices == {<<>>, <<IdPath(<<"Kind">>)>>, <<IdPath(<<"Missing">>)>>}

OtherChoices ==
    {<<>>, <<IdPath(<<"World">>)>>, <<IdPath(<<"Missing">>)>>, <<OneOfChoice>>}

FieldName(i) == "field_" \o ToString(i)

\* Field::json_name(): the lower camel case form of the field name
JsonName(i) == "field" \o ToString(i)

EntryOf(choice, i) ==
    IF choice = OneOfChoice THEN OneOf("group_" \o ToString(i))
    ELSE Field(FieldName(i), JsonName(i), choice)

EntriesOf(choices) == [i \in 1..Len(choices) |-> EntryOf(choices[i], i)]

\* the nested declaration goes after the first entry
WithNested(entries, id) ==
    IF entries = <<>> THEN <<DeclarationEntry(id)>>
    ELSE <<Head(entries), DeclarationEntry(id)>> \o Tail(entries)

WorldEntries(world, inner, deep, other) ==
    [d \in {"World", "Inner", "Deep", "Other"} |->
        CASE d = "World" -> WithNested(EntriesOf(world), "Inner")
          [] d = "Inner" -> EntriesOf(inner)
                            \o <<DeclarationEntry("Kind"), DeclarationEntry("Deep")>>
          [] d = "Deep" -> EntriesOf(deep)
          [] d = "Other" -> EntriesOf(other)]

\* Result<Folder, ProtoError> of file_to_folder, or its panic
FileToFolderReturned(kind, folder, error_message) ==
    [kind |-> kind, folder |-> folder, error_message |-> error_message]

InitCompile ==
    /\ decls = WorldArena
    /\ files = WorldTree
    /\ ResolverIdle
    /\ GriIdle
    /\ \E world \in UNION {[1..n -> EntryChoices] : n \in 0..MaxFields},
          inner \in InnerChoices, deep \in DeepChoices, other \in OtherChoices :
           message_entries = WorldEntries(world, inner, deep, other)
    /\ cf_pc = "idle"
    /\ cf_file = NoFile
    /\ cf_pos = 0
    /\ cf_res = NoFolder
    /\ cf_log = <<>>
    /\ cf_ret = FileToFolderReturned("None", NoFolder, "")
    /\ TypesIdle
    /\ ArgsIdle
    /\ AstIdle

\* lines 413-414
CallFileToFolder ==
    /\ cf_pc = "idle"
    /\ \E f \in DOMAIN files :
           /\ cf_file' = f
           /\ cf_res' = Folder(file_name_to_folder_name(files[f].name), <<>>)
    /\ cf_pos' = 1
    /\ cf_pc' = "loop"
    /\ UNCHANGED <<message_entries, cf_log, cf_ret>>
    /\ UNCHANGED <<resolver_vars, gri_vars, types_vars, args_vars, ast_vars>>

\* lines 417-419
InsertEnum ==
    /\ cf_pc = "loop"
    /\ cf_pos <= Len(files[cf_file].declarations)
    /\ decls[files[cf_file].declarations[cf_pos]].kind = "Enum"
    /\ cf_res' = insert_enum_declaration(cf_res, files[cf_file].declarations[cf_pos])
    /\ cf_log' = Append(cf_log, files[cf_file].declarations[cf_pos])
    /\ cf_pos' = cf_pos + 1
    /\ UNCHANGED <<message_entries, cf_pc, cf_file, cf_ret>>
    /\ UNCHANGED <<resolver_vars, gri_vars, types_vars, args_vars, ast_vars>>

\* lines 420-423: one top-level message; the ? returns its error, a panic
\* unwinds through file_to_folder
InsertMessage ==
    /\ cf_pc = "loop"
    /\ cf_pos <= Len(files[cf_file].declarations)
    /\ decls[files[cf_file].declarations[cf_pos]].kind = "Message"
    /\ \E inserted \in {insert_message_declaration(
                            cf_res, BlockScope_new(cf_file),
                            files[cf_file].declarations[cf_pos], cf_log)} :
           /\ cf_res' = inserted.folder
           /\ cf_log' = inserted.log
           /\ IF inserted.kind = "Ok"
              THEN /\ cf_pos' = cf_pos + 1
                   /\ UNCHANGED <<cf_pc, cf_ret>>
              ELSE /\ cf_ret' = FileToFolderReturned(inserted.kind, NoFolder,
                                                     inserted.error_message)
                   /\ cf_pc' = "done"
                   /\ UNCHANGED cf_pos
    /\ UNCHANGED <<message_entries, cf_file>>
    /\ UNCHANGED <<resolver_vars, gri_vars, types_vars, args_vars, ast_vars>>

\* line 426
ReturnFolder ==
    /\ cf_pc = "loop"
    /\ cf_pos > Len(files[cf_file].declarations)
    /\ cf_ret' = FileToFolderReturned("Ok", cf_res, "")
    /\ cf_pc' = "done"
    /\ UNCHANGED <<message_entries, cf_file, cf_pos, cf_res, cf_log>>
    /\ UNCHANGED <<resolver_vars, gri_vars, types_vars, args_vars, ast_vars>>

NextCompile ==
    \/ CallFileToFolder
    \/ InsertEnum
    \/ InsertMessage
    \/ ReturnFolder

SpecCompile == InitCompile /\ [][NextCompile]_vars

(***************************************************************************)
(* Properties of the generated folder tree                                 *)
(***************************************************************************)
Messages == {d \in DOMAIN decls : decls[d].kind = "Message"}

\* the scope insert_message_declaration is called with for message m
ScopeOf(m) == BlockScope(decls[m].file, Reverse(Ancestors(m)))

FieldIndices(m) ==
    {i \in 1..Len(message_entries[m]) : message_entries[m][i].tag = "Field"}

IsScalar(field_type) ==
    /\ field_type.tag = "IdPath"
    /\ Len(field_type.ids) = 1
    /\ try_get_predefined_type(field_type.ids[1]) # NoType

\* what the type of entry i of message m denotes
Denoted(m, i) ==
    resolve_path(BlockScope_push(ScopeOf(m), m), message_entries[m][i].field_type.ids)

\* entry i of message m is a field whose type is message m itself
SelfTyped(m, i) ==
    /\ message_entries[m][i].tag = "Field"
    /\ message_entries[m][i].field_type.tag = "IdPath"
    /\ ~IsScalar(message_entries[m][i].field_type)
    /\ Denoted(m, i).kind = "Ok"
    /\ Denoted(m, i).tag = "DataType"
    /\ Denoted(m, i).id = m

EntriesNamed(folder, tag, name) ==
    {i \in 1..Len(folder.entries) :
        folder.entries[i].tag = tag /\ folder.entries[i].name = name}

\* the folder reached from folder by the names, NoFolder when there is none
RECURSIVE Descend(_, _)
Descend(folder, names) ==
    IF names = <<>> THEN folder
    ELSE IF EntriesNamed(folder, "Folder", names[1]) = {} THEN NoFolder
    ELSE Descend(folder.entries[Min(EntriesNamed(folder, "Folder", names[1]))],
                 Tail(names))

\* the folder generated for message m below the file's folder root
MessageFolder(root, m) ==
    Descend(root, [i \in 1..Len(Ancestors(m)) |-> decls[Ancestors(m)[i]].name]
                  \o <<decls[m].name>>)

TypesFile(root, m) ==
    LET folder == MessageFolder(root, m)
    IN  IF EntriesNamed(folder, "File", "types") = {} THEN File("", <<>>)
        ELSE folder.entries[Min(EntriesNamed(folder, "File", "types"))]

StatementsTagged(file, tag) ==
    {i \in 1..Len(file.statements) : file.statements[i].tag = tag}

InterfacesNamed(file, name) ==
    {i \in StatementsTagged(file, "Interface") : file.statements[i].name = name}

\* the number of field entries among the first i entries of message m
FieldRank(m, i) == Cardinality({j \in FieldIndices(m) : j <= i})

TypeReference(name) == [tag |-> "TypeReference", name |-> name]

\* every entry of every message is a nested declaration, a field of a
\* predefined scalar type, or a field of the message's own type
OnlyScalarOrSelfTyped ==
    \A m \in Messages : \A i \in 1..Len(message_entries[m]) :
        \/ message_entries[m][i].tag = "Declaration"
        \/ /\ message_entries[m][i].tag = "Field"
           /\ \/ IsScalar(message_entries[m][i].field_type)
              \/ SelfTyped(m, i)

\* C11: no generated file imports from itself. When the fields of the
\* compiled messages are of scalar types or of the type of the message that
\* declares them, compilation completes, the types file of every message
\* holds no import statement, and the EncodeInput property of every
\* self-typed field refers directly to the message's own EncodeInput symbol.
C11_NoSelfImport ==
    (cf_pc = "done" /\ OnlyScalarOrSelfTyped) =>
        /\ cf_ret.kind = "Ok"
        /\ \A m \in Messages :
               LET types == TypesFile(cf_ret.folder, m)
                   encode_name == message_name_to_encode_type_name(decls[m].name)
               IN  /\ StatementsTagged(types, "Import") = {}
                   /\ \A i \in FieldIndices(m) :
                          SelfTyped(m, i) =>
                              \A k \in InterfacesNamed(types, encode_name) :
                                  types.statements[k].members[FieldRank(m, i)].propertyType
                                      = TypeReference(encode_name)

\* entry i of message m is a field whose type is the message called name
FieldOfMessage(m, i, name) ==
    /\ message_entries[m][i].tag = "Field"
    /\ message_entries[m][i].field_type.tag = "IdPath"
    /\ ~IsScalar(message_entries[m][i].field_type)
    /\ Denoted(m, i).kind = "Ok"
    /\ Denoted(m, i).tag = "DataType"
    /\ decls[Denoted(m, i).id].kind = "Message"
    /\ decls[Denoted(m, i).id].name = name

\* the scenario: World has one or more fields of type Other, and nothing
\* else of the file refers to a declaration
WorldReferencesOther ==
    /\ \E i \in FieldIndices("World") : FieldOfMessage("World", i, "Other")
    /\ \A m \in Messages : \A i \in 1..Len(message_entries[m]) :
           \/ message_entries[m][i].tag = "Declaration"
           \/ /\ message_entries[m][i].tag = "Field"
              /\ \/ IsScalar(message_entries[m][i].field_type)
                 \/ m = "World" /\ FieldOfMessage(m, i, "Other")

\* the import statements of file that bind imported_name
ImportsOf(file, imported_name) ==
    {i \in StatementsTagged(file, "Import") :
        file.statements[i].imported_name = imported_name}

\* C13: in package hello, world.proto declares the top-level messages World
\* and Other and World has one or more fields of type Other. The types file
\* generated for World holds exactly one import of OtherEncodeInput, from
\* Other's types module (written ./Other, or ../Other/types relative to the
\* folder of World), however many fields refer to Other.
C13_SingleImportOfOther ==
    (cf_pc = "done" /\ WorldReferencesOther) =>
        /\ cf_ret.kind = "Ok"
        /\ LET types == TypesFile(cf_ret.folder, "World")
           IN  /\ Cardinality(ImportsOf(types, "OtherEncodeInput")) = 1
               /\ \A i \in ImportsOf(types, "OtherEncodeInput") :
                      types.statements[i].string_literal
                          \in {"./Other", "../Other/types"}

\* the index of the k-th field entry of message m
FieldAt(m, k) == CHOOSE i \in FieldIndices(m) : FieldRank(m, i) = k

\* the property names the fields of message m ask for, in declared order
FieldJsonNames(m) ==
    [k \in 1..Cardinality(FieldIndices(m)) |-> message_entries[m][FieldAt(m, k)].json_name]

MemberNames(interface) ==
    [k \in 1..Len(interface.members) |-> interface.members[k].name]

\* the number of folders in the tree below and including folder
RECURSIVE CountFolders(_)
RECURSIVE CountFoldersIn(_, _)
CountFoldersIn(entries, i) ==
    IF i > Len(entries) THEN 0
    ELSE (IF entries[i].tag = "Folder" THEN CountFolders(entries[i]) ELSE 0)
         + CountFoldersIn(entries, i + 1)

CountFolders(folder) == 1 + CountFoldersIn(folder.entries, 1)

\* C14: on a successful compilation every message of the file, top-level or
\* nested at any depth, has exactly one folder named after it in the folder
\* of its parent (and the tree holds no other folder but the file's own);
\* that folder holds exactly one file types, which holds exactly one
\* interface <Message>EncodeInput and exactly one interface <Message> and no
\* other interface; each of the two has exactly one property per field entry
\* of the message, in declaration order, and none for a nested declaration.
C14_OneFolderPerMessage ==
    (cf_pc = "done" /\ cf_ret.kind = "Ok") =>
        /\ CountFolders(cf_ret.folder) = Cardinality(Messages) + 1
        /\ \A m \in Messages :
               LET parent == Descend(cf_ret.folder,
                                     [i \in 1..Len(Ancestors(m)) |->
                                         decls[Ancestors(m)[i]].name])
                   folder == MessageFolder(cf_ret.folder, m)
                   types == TypesFile(cf_ret.folder, m)
                   encode_name == message_name_to_encode_type_name(decls[m].name)
               IN  /\ Cardinality(EntriesNamed(parent, "Folder", decls[m].name)) = 1
                   /\ Cardinality(EntriesNamed(folder, "File", "types")) = 1
                   /\ Cardinality(InterfacesNamed(types, encode_name)) = 1
                   /\ Cardinality(InterfacesNamed(types, decls[m].name)) = 1
                   /\ Cardinality(StatementsTagged(types, "Interface")) = 2
                   /\ \A k \in StatementsTagged(types, "Interface") :
                          MemberNames(types.statements[k]) = FieldJsonNames(m)

\* a compilation succeeded on a file whose message World has two fields
\* around its nested message and whose nested messages have fields too
C14_Witness ==
    /\ cf_pc = "done"
    /\ cf_ret.kind = "Ok"
    /\ Cardinality(FieldIndices("World")) = 2
    /\ Len(message_entries["World"]) = 3
    /\ FieldIndices("Inner") # {}
    /\ FieldIndices("Deep") # {}
    /\ MemberNames(TypesFile(cf_ret.folder, "World").statements[1])
           = <<"field1", "field2">>
    /\ Len(TypesFile(cf_ret.folder, "Deep").statements[2].members) = 1

(***************************************************************************)
(* types_compiler.rs: the types file of a message                          *)
(***************************************************************************)
\* package::Type: a scalar kind, Enum(id), Message(id), Repeated or Map
Kind(tag) == [tag |-> tag]

EnumType(id) == [tag |-> "Enum", id |-> id]

MessageType(id) == [tag |-> "Message", id |-> id]

ScalarKinds ==
    {"Bool", "Bytes", "Double", "Fixed32", "Fixed64", "Float", "Int32", "Int64",
     "Sfixed32", "Sfixed64", "Sint32", "Sint64", "String", "Uint32", "Uint64"}

\* constants.rs PROTOBUF_MODULE
PROTOBUF_MODULE == "protobufjs/minimal"

\* an ImportDeclaration with one named binding, as a statement of a file
ImportStatement(imported_name, string_literal) ==
    [tag |-> "Import", imported_name |-> imported_name,
     string_literal |-> string_literal]

\* UnionType::push without the search for an equal member
RECURSIVE UnionType_push_keeps_equal(_, _)
UnionType_push_keeps_equal(types, t) ==
    IF t.tag = "Never" THEN types
    ELSE IF t.tag = "UnionType"
    THEN IF t.types = <<>> THEN types
         ELSE UnionType_push_keeps_equal(
                  UnionType_push_keeps_equal(types, Head(t.types)),
                  [tag |-> "UnionType", types |-> Tail(t.types)])
    ELSE Append(types, t)

\* UnionType::push, ast.rs lines 187-204
RECURSIVE UnionType_push(_, _)
UnionType_push(types, t) ==
    IF t.tag = "Never" THEN types
    ELSE IF t.tag = "UnionType"
    THEN IF t.types = <<>> THEN types
         ELSE UnionType_push(UnionType_push(types, Head(t.types)),
                             [tag |-> "UnionType", types |-> Tail(t.types)])
    ELSE IF \E i \in 1..Len(types) : types[i] = t THEN types
    ELSE Append(types, t)

\* From<UnionType> for Type, ast.rs lines 228-239
FromUnionType(types) ==
    IF Len(types) = 0 THEN Type("Never")
    ELSE IF Len(types) = 1 THEN types[1]
    ELSE [tag |-> "UnionType", types |-> types]

\* Type::or, ast.rs lines 258-263
Type_or(self, another) ==
    FromUnionType(UnionType_push(UnionType_push(<<>>, self), another))

\* RootScope::get_declaration_name and get_declaration_path
get_declaration_name(id) == decls[id].name

get_declaration_path(id) == CanonicalPath(id)

\* ensure_import: append the import unless an identical one is in the file
ensure_import(file, imprt) ==
    IF \E i \in 1..Len(file.statements) : file.statements[i] = imprt
    THEN file
    ELSE File(file.name, Append(file.statements, imprt))

\* get_relative_import returning Option: None when to lies in the file from
get_relative_import_option(from, to) ==
    IF StripCommon(from, to)[1] = <<>> THEN NoImport
    ELSE get_relative_import(from, to)

\* Result<Type, ProtoError> with the types file as the call left it, or a panic
Typed(kind, type, file, error_message) ==
    [kind |-> kind, type |-> type, file |-> file, error_message |-> error_message]

\* lines 336-341 and 370-375: the match on what get_relative_import returned
EnsureRelativeImport(types_file, from, to, type) ==
    TheOnly({CASE found.kind = "Import" ->
                     Typed("Ok", type,
                           ensure_import(types_file,
                               ImportStatement(found.imported_name,
                                               found.string_literal)), "")
               [] found.kind = "None" -> Typed("Ok", type, types_file, "")
               [] found.kind = "Abort" ->
                     Typed("Panic", Type(NoType), types_file, AssertionFailed) :
             found \in {get_relative_import_option(from, to)}})

\* lines 315-345
import_enum_type(m, types_file, enum_declaration_id) ==
    EnsureRelativeImport(
        types_file,
        proto_path_to_ts_path(get_declaration_path(m))
            \o <<TsPathComponent("File", "types")>>,
        proto_path_to_ts_path(get_declaration_path(enum_declaration_id))
            \o <<TsPathComponent("Enum", get_declaration_name(enum_declaration_id))>>,
        TypeReference(get_declaration_name(enum_declaration_id)))

\* import_message_type that imports the declared name of the message
\* whatever symbol it was asked for
import_message_type_declared_name(m, types_file, imported_message_id, imported_name) ==
    EnsureRelativeImport(
        types_file,
        proto_path_to_ts_path(get_declaration_path(m))
            \o <<TsPathComponent("File", "types")>>,
        proto_path_to_ts_path(get_declaration_path(imported_message_id))
            \o <<TsPathComponent("File", "types"),
                 TsPathComponent("Interface", get_declaration_name(imported_message_id))>>,
        TypeReference(get_declaration_name(imported_message_id)))

\* lines 347-383
import_message_type(m, types_file, imported_message_id, imported_name) ==
    EnsureRelativeImport(
        types_file,
        proto_path_to_ts_path(get_declaration_path(m))
            \o <<TsPathComponent("File", "types")>>,
        proto_path_to_ts_path(get_declaration_path(imported_message_id))
            \o <<TsPathComponent("File", "types"),
                 TsPathComponent("Interface", imported_name)>>,
        TypeReference(imported_name))

\* EncodingScalarType with the util import pushed to the file as a
\* statement, present or not
EncodingScalarType_push_import(types_file, kind) ==
    CASE kind = "Bool" -> Typed("Ok", Type("Boolean"), types_file, "")
      [] kind = "Bytes" -> Typed("Ok", TypeReference("Uint8Array"), types_file, "")
      [] kind \in {"Double", "Fixed32", "Fixed64", "Float", "Int32"} ->
            Typed("Ok", Type("Number"), types_file, "")
      [] kind \in {"Int64", "Sfixed64", "Sint64", "Uint64"} ->
            Typed("Ok", Type_or(TypeReference("util.Long"), Type("Number")),
                  File(types_file.name,
                       Append(types_file.statements,
                              ImportStatement("util", PROTOBUF_MODULE))),
                  "")
      [] kind \in {"Sfixed32", "Sint32"} -> Typed("Ok", Type("Number"), types_file, "")
      [] kind = "String" -> Typed("Ok", Type("String"), types_file, "")
      [] kind = "Uint32" -> Typed("Ok", Type("Number"), types_file, "")

\* types_compiler.rs lines 129-155: the scalar kinds of
\* import_encoding_input_type
EncodingScalarType(types_file, kind) ==
    CASE kind = "Bool" -> Typed("Ok", Type("Boolean"), types_file, "")
      [] kind = "Bytes" -> Typed("Ok", TypeReference("Uint8Array"), types_file, "")
      [] kind \in {"Double", "Fixed32", "Fixed64", "Float", "Int32"} ->
            Typed("Ok", Type("Number"), types_file, "")
      [] kind \in {"Int64", "Sfixed64", "Sint64", "Uint64"} ->
            Typed("Ok", Type_or(TypeReference("util.Long"), Type("Number")),
                  ensure_import(types_file, ImportStatement("util", PROTOBUF_MODULE)),
                  "")
      [] kind \in {"Sfixed32", "Sint32"} -> Typed("Ok", Type("Number"), types_file, "")
      [] kind = "String" -> Typed("Ok", Type("String"), types_file, "")
      [] kind = "Uint32" -> Typed("Ok", Type("Number"), types_file, "")

\* types_compiler.rs lines 218-243: the scalar kinds of
\* import_decode_result_type
DecodingScalarType(types_file, kind) ==
    CASE kind = "Bool" -> Typed("Ok", Type("Boolean"), types_file, "")
      [] kind = "Bytes" -> Typed("Ok", TypeReference("Uint8Array"), types_file, "")
      [] kind \in {"Double", "Fixed32", "Fixed64", "Float", "Int32"} ->
            Typed("Ok", Type("Number"), types_file, "")
      [] kind \in {"Int64", "Sfixed64", "Sint64", "Uint64"} ->
            Typed("Ok", TypeReference("util.Long"),
                  ensure_import(types_file, ImportStatement("util", PROTOBUF_MODULE)),
                  "")
      [] kind \in {"Sfixed32", "Sint32"} -> Typed("Ok", Type("Number"), types_file, "")
      [] kind = "String" -> Typed("Ok", Type("String"), types_file, "")
      [] kind = "Uint32" -> Typed("Ok", Type("Number"), types_file, "")

\* types_compiler.rs import_encoding_input_type, lines 101-209
RECURSIVE types_import_encoding_input_type(_, _, _)
types_import_encoding_input_type(m, types_file, field_type) ==
    CASE field_type.tag = "Enum" -> import_enum_type(m, types_file, field_type.id)
      [] field_type.tag = "Message" ->
            import_message_type(
                m, types_file, field_type.id,
                message_name_to_encode_type_name(get_declaration_name(field_type.id)))
      [] field_type.tag = "Repeated" ->
            TheOnly({IF element_type.kind # "Ok" THEN element_type
                     ELSE Typed("Ok", ArrayType(element_type.type),
                                element_type.file, "") :
                     element_type \in {types_import_encoding_input_type(
                                           m, types_file, field_type.of)}})
      [] field_type.tag = "Map" ->
            Typed("Panic", Type(NoType), types_file, "not yet implemented")
      [] field_type.tag \in ScalarKinds ->
            EncodingScalarType(types_file, field_type.tag)

\* import_decode_result_type, lines 211-313
RECURSIVE import_decode_result_type(_, _, _)
import_decode_result_type(m, types_file, field_type) ==
    CASE field_type.tag \in ScalarKinds ->
            DecodingScalarType(types_file, field_type.tag)
      [] field_type.tag = "Enum" -> import_enum_type(m, types_file, field_type.id)
      [] field_type.tag = "Message" ->
            import_message_type(m, types_file, field_type.id,
                                get_declaration_name(field_type.id))
      [] field_type.tag = "Repeated" ->
            TheOnly({IF element_type.kind # "Ok" THEN element_type
                     ELSE Typed("Ok", ArrayType(element_type.type),
                                element_type.file, "") :
                     element_type \in {import_decode_result_type(
                                           m, types_file, field_type.of)}})
      [] field_type.tag = "Map" ->
            Typed("Panic", Type(NoType), types_file, "not yet implemented")

(***************************************************************************)
(* SpecTypes: insert_message_types of types_compiler.rs run on the         *)
(* messages World and Other of world.proto                                 *)
(***************************************************************************)
\* what the first entry of World may be
FirstTypeChoices ==
    {Kind(k) : k \in ScalarKinds}
    \cup {EnumType("Color"), EnumType("Kind"), MessageType("World"),
          MessageType("Other"), MessageType("Inner"),
          Repeated(MessageType("Other")), Repeated(Kind("Int64")),
          Map(Kind("String"), Kind("Int32")),
          Map(MessageType("Other"), Kind("Int32")), OneOfChoice}

\* what its later entries may be
LaterTypeChoices ==
    {Kind("Int64"), Kind("Uint64"), Kind("String"), MessageType("Other"),
     Repeated(MessageType("Other")), EnumType("Color")}

WorldTypeLists ==
    {<<>>} \cup
    UNION {{<<first>> \o rest : first \in FirstTypeChoices,
                                rest \in [1..n -> LaterTypeChoices]} :
           n \in 0..(MaxFields - 1)}

OtherTypeLists ==
    {<<>>, <<Kind("Int64")>>, <<MessageType("World")>>, <<MessageType("Other")>>}

TypedEntries(world, other) ==
    [d \in {"World", "Other"} |->
        CASE d = "World" -> EntriesOf(world)
          [] d = "Other" -> EntriesOf(other)]

InitTypes ==
    /\ decls = WorldArena
    /\ files = WorldTree
    /\ ResolverIdle
    /\ GriIdle
    /\ \E world \in WorldTypeLists, other \in OtherTypeLists :
           message_entries = TypedEntries(world, other)
    /\ cf_pc = "idle"
    /\ cf_file = NoFile
    /\ cf_pos = 0
    /\ cf_res = NoFolder
    /\ cf_log = <<>>
    /\ cf_ret = FileToFolderReturned("None", NoFolder, "")
    /\ ty_pc = "idle"
    /\ ty_todo = <<"World", "Other">>
    /\ ty_msg = NoDecl
    /\ ty_pos = 0
    /\ ty_file = File("", <<>>)
    /\ ty_members = <<>>
    /\ ty_mapped = Type(NoType)
    /\ ty_files = <<>>
    /\ ty_ret = ""
    /\ ArgsIdle
    /\ AstIdle

\* line 26: insert_message_types is called for the next message
StartTypes ==
    /\ ty_pc = "idle"
    /\ ty_todo # <<>>
    /\ ty_msg' = Head(ty_todo)
    /\ ty_todo' = Tail(ty_todo)
    /\ ty_file' = File("types", <<>>)
    /\ ty_members' = <<>>
    /\ ty_pos' = 1
    /\ ty_pc' = "encode"
    /\ UNCHANGED <<ty_mapped, ty_files, ty_ret>>
    /\ UNCHANGED <<resolver_vars, gri_vars, compile_vars, args_vars, ast_vars>>

\* lines 50-66: one entry of the message, for the EncodeInput interface
EncodeEntry ==
    /\ ty_pc = "encode"
    /\ ty_pos <= Len(message_entries[ty_msg])
    /\ IF message_entries[ty_msg][ty_pos].tag = "OneOf"
       THEN /\ ty_ret' = "not yet implemented"
            /\ ty_pc' = "done"
            /\ UNCHANGED <<ty_file, ty_members, ty_mapped, ty_pos>>
       ELSE \E t \in {types_import_encoding_input_type(
                          ty_msg, ty_file, message_entries[ty_msg][ty_pos].field_type)} :
                /\ ty_file' = t.file
                /\ IF t.kind = "Ok"
                   THEN /\ ty_mapped' = t.type
                        /\ ty_members' =
                               Append(ty_members,
                                      PropertySignature_new_optional(
                                          message_entries[ty_msg][ty_pos].json_name,
                                          Type_or(t.type, Type("Null"))))
                        /\ ty_pos' = ty_pos + 1
                        /\ UNCHANGED <<ty_pc, ty_ret>>
                   ELSE /\ ty_ret' = t.error_message
                        /\ ty_pc' = "done"
                        /\ UNCHANGED <<ty_members, ty_mapped, ty_pos>>
    /\ UNCHANGED <<ty_todo, ty_msg, ty_files>>
    /\ UNCHANGED <<resolver_vars, gri_vars, compile_vars, args_vars, ast_vars>>

\* lines 68-69 and 77
PushEncodeInterface ==
    /\ ty_pc = "encode"
    /\ ty_pos > Len(message_entries[ty_msg])
    /\ ty_file' = File(ty_file.name,
                       Append(ty_file.statements,
                              InterfaceDeclaration(
                                  message_name_to_encode_type_name(decls[ty_msg].name),
                                  ty_members)))
    /\ ty_members' = <<>>
    /\ ty_pos' = 1
    /\ ty_pc' = "decode"
    /\ UNCHANGED <<ty_todo, ty_msg, ty_mapped, ty_files, ty_ret>>
    /\ UNCHANGED <<resolver_vars, gri_vars, compile_vars, args_vars, ast_vars>>

\* lines 82-95: one entry of the message, for the DecodeResult interface
DecodeEntry ==
    /\ ty_pc = "decode"
    /\ ty_pos <= Len(message_entries[ty_msg])
    /\ IF message_entries[ty_msg][ty_pos].tag = "OneOf"
       THEN /\ ty_ret' = NotImplemented
            /\ ty_pc' = "done"
            /\ UNCHANGED <<ty_file, ty_members, ty_mapped, ty_pos>>
       ELSE \E t \in {import_decode_result_type(
                          ty_msg, ty_file, message_entries[ty_msg][ty_pos].field_type)} :
                /\ ty_file' = t.file
                /\ IF t.kind = "Ok"
                   THEN /\ ty_mapped' = t.type
                        /\ ty_members' =
                               Append(ty_members,
                                      PropertySignature_new_optional(
                                          message_entries[ty_msg][ty_pos].json_name,
                                          Type_or(t.type, Type("Null"))))
                        /\ ty_pos' = ty_pos + 1
                        /\ UNCHANGED <<ty_pc, ty_ret>>
                   ELSE /\ ty_ret' = t.error_message
                        /\ ty_pc' = "done"
                        /\ UNCHANGED <<ty_members, ty_mapped, ty_pos>>
    /\ UNCHANGED <<ty_todo, ty_msg, ty_files>>
    /\ UNCHANGED <<resolver_vars, gri_vars, compile_vars, args_vars, ast_vars>>

\* lines 97-98 and 31-34: the file is pushed to the folder of the message
PushDecodeInterface ==
    /\ ty_pc = "decode"
    /\ ty_pos > Len(message_entries[ty_msg])
    /\ ty_files' = Append(ty_files,
                          [message |-> ty_msg,
                           file |-> File(ty_file.name,
                                         Append(ty_file.statements,
                                                InterfaceDeclaration(decls[ty_msg].name,
                                                                     ty_members)))])
    /\ ty_file' = File("", <<>>)
    /\ ty_members' = <<>>
    /\ ty_msg' = NoDecl
    /\ ty_pos' = 0
    /\ IF ty_todo = <<>>
       THEN ty_pc' = "done" /\ ty_ret' = "Ok"
       ELSE ty_pc' = "idle" /\ UNCHANGED ty_ret
    /\ UNCHANGED <<ty_todo, ty_mapped>>
    /\ UNCHANGED <<resolver_vars, gri_vars, compile_vars, args_vars, ast_vars>>

NextTypes ==
    \/ StartTypes
    \/ EncodeEntry
    \/ PushEncodeInterface
    \/ DecodeEntry
    \/ PushDecodeInterface

SpecTypes == InitTypes /\ [][NextTypes]_vars

(***************************************************************************)
(* Properties of the types files of types_compiler.rs                      *)
(***************************************************************************)
\* the types files of the state: the one under construction and those pushed
TypesFiles == {ty_file} \cup {ty_files[i].file : i \in 1..Len(ty_files)}

\* every import statement met in some types file of the state
ImportsSeen ==
    UNION {{f.statements[i] : i \in StatementsTagged(f, "Import")} : f \in TypesFiles}

Occurrences(file, statement) ==
    {i \in 1..Len(file.statements) : file.statements[i] = statement}

SixtyFourBit == {"Int64", "Uint64", "Sint64", "Sfixed64"}

\* the entries of message m met so far by the loop that is at entry pos
HasLongField(m, pos) ==
    \E i \in 1..(pos - 1) :
        /\ message_entries[m][i].tag = "Field"
        /\ message_entries[m][i].field_type.tag \in SixtyFourBit

\* C12: import dedup. Whatever imports the fields of a message requested,
\* its types file holds at most one import statement per (module specifier,
\* imported symbol) pair; requesting a pair that is present leaves the
\* statement list as it is; and dedup is per file: a pair absent from a file
\* is added to it once, whether or not another file holds it, so that every
\* file whose message has a 64-bit field holds the util import.
C12_ImportDedup ==
    /\ \A f \in TypesFiles : \A i, j \in StatementsTagged(f, "Import") :
           (/\ f.statements[i].string_literal = f.statements[j].string_literal
            /\ f.statements[i].imported_name = f.statements[j].imported_name)
               => i = j
    /\ \A f \in TypesFiles : \A imprt \in ImportsSeen :
           IF Occurrences(f, imprt) # {}
           THEN ensure_import(f, imprt).statements = f.statements
           ELSE ensure_import(f, imprt).statements = Append(f.statements, imprt)
    /\ ty_pc \in {"encode", "decode"} /\ HasLongField(ty_msg, ty_pos) =>
           Cardinality(Occurrences(ty_file, ImportStatement("util", PROTOBUF_MODULE))) = 1
    /\ \A k \in 1..Len(ty_files) :
           HasLongField(ty_files[k].message,
                        Len(message_entries[ty_files[k].message]) + 1) =>
               Cardinality(Occurrences(ty_files[k].file,
                                       ImportStatement("util", PROTOBUF_MODULE))) = 1

\* both messages have 64-bit fields, World two of them: each of the two
\* types files holds the util import, once
C12_Witness ==
    /\ ty_ret = "Ok"
    /\ Len(ty_files) = 2
    /\ Cardinality({i \in 1..Len(message_entries["World"]) :
                       message_entries["World"][i].field_type.tag \in SixtyFourBit}) >= 2
    /\ \A k \in 1..2 :
           Cardinality(Occurrences(ty_files[k].file,
                                   ImportStatement("util", PROTOBUF_MODULE))) = 1

\* the entry the loop of the current phase has just handled
JustMapped == message_entries[ty_msg][ty_pos - 1].field_type

AfterField ==
    /\ ty_pc \in {"encode", "decode"}
    /\ ty_pos > 1
    /\ message_entries[ty_msg][ty_pos - 1].tag = "Field"

\* the EncodeInput interface of the file under construction, once pushed
EncodeInterface ==
    ty_file.statements[Min(InterfacesNamed(
        ty_file, message_name_to_encode_type_name(decls[ty_msg].name)))]

\* C15: every 64-bit integer kind (int64, uint64, sint64, fixed64, sfixed64)
\* is mapped for the EncodeInput interface to the union of util.Long and
\* number and for the DecodeResult interface to util.Long alone; every
\* other scalar kind is mapped to one and the same type for both.
C15_SixtyFourBitKinds ==
    (AfterField /\ JustMapped.tag \in ScalarKinds) =>
        IF JustMapped.tag \in {"Int64", "Uint64", "Sint64", "Fixed64", "Sfixed64"}
        THEN ty_mapped = (IF ty_pc = "encode"
                          THEN [tag |-> "UnionType",
                                types |-> <<TypeReference("util.Long"), Type("Number")>>]
                          ELSE TypeReference("util.Long"))
        ELSE /\ ty_mapped.tag \in {"Boolean", "Number", "String", "TypeReference"}
             /\ ty_pc = "decode" =>
                    EncodeInterface.members[ty_pos - 1].propertyType
                        = Type_or(ty_mapped, Type("Null"))

\* C16: the property a field gets in the DecodeResult interface is always
\* present (not optional) and has the type the field type was mapped to,
\* not widened with null; the property it gets in the EncodeInput interface
\* is optional.
C16_DecodeNarrowEncodeWide ==
    AfterField =>
        IF ty_pc = "decode"
        THEN /\ ~ty_members[ty_pos - 1].optional
             /\ ty_members[ty_pos - 1].propertyType = ty_mapped
        ELSE ty_members[ty_pos - 1].optional

\* the mapper stopped compilation at a field of a map type
FailedAtMapField ==
    /\ ty_pc = "done"
    /\ ty_ret # "Ok"
    /\ ty_pos \in 1..Len(message_entries[ty_msg])
    /\ message_entries[ty_msg][ty_pos].tag = "Field"
    /\ message_entries[ty_msg][ty_pos].field_type.tag = "Map"

\* C17: a field of type Map(K, V) is mapped to a key->value mapping type
\* built from the mapped types of K and V; mapping it fails only when K is
\* a message type, and then with a "not implemented" signal.
C17_MapFieldType ==
    /\ (AfterField /\ JustMapped.tag = "Map") =>
           /\ JustMapped.key.tag \in ScalarKinds
           /\ ty_mapped.tag = "Record"
    /\ FailedAtMapField =>
           /\ message_entries[ty_msg][ty_pos].field_type.key.tag = "Message"
           /\ ty_ret = "not yet implemented"

\* some message of the file, top-level or nested, holds a oneof group
HasOneOf ==
    \E m \in Messages : \E i \in 1..Len(message_entries[m]) :
        message_entries[m][i].tag = "OneOf"

\* every field of every message of the file is of a predefined scalar type
AllFieldsScalar ==
    \A m \in Messages : \A i \in FieldIndices(m) :
        IsScalar(message_entries[m][i].field_type)

NestedIds(m) ==
    LET IsDeclaration(entry) == entry.tag = "Declaration"
        nested == SelectSeq(message_entries[m], IsDeclaration)
    IN  [i \in 1..Len(nested) |-> nested[i].id]

\* the order in which file_to_folder reaches the declarations ids and what
\* is nested in them
RECURSIVE Traversal(_)
Traversal(declarations) ==
    IF declarations = <<>> THEN <<>>
    ELSE <<Head(declarations)>>
         \o (IF decls[Head(declarations)].kind = "Message"
             THEN Traversal(NestedIds(Head(declarations)))
             ELSE <<>>)
         \o Traversal(Tail(declarations))

\* what building the two interfaces of message m alone comes to
TypesOutcome(m) == insert_message_types(Folder(decls[m].name, <<>>), ScopeOf(m), m, <<>>)

\* the positions of the traversal at which the interfaces of a message fail
FailingAt(order) ==
    {k \in 1..Len(order) :
        decls[order[k]].kind = "Message" /\ TypesOutcome(order[k]).kind # "Ok"}

\* C19: file_to_folder either completes and returns a full folder, or fails
\* fast and produces nothing. When mapping a field type of a message, at any
\* nesting depth, fails, file_to_folder returns the failure of the first
\* such message in traversal order, no declaration after that message is
\* processed, no folder is returned, and neither the failing message nor
\* any message it is nested in has a folder in the folder of the file.
\* When no message fails, every declaration is processed and the folder
\* of the file is returned.
C19_FailFast ==
    cf_pc = "done" =>
        LET order == Traversal(files[cf_file].declarations)
        IN  IF FailingAt(order) = {}
            THEN /\ cf_ret = FileToFolderReturned("Ok", cf_res, "")
                 /\ cf_log = order
            ELSE LET k == Min(FailingAt(order))
                     failed == TypesOutcome(order[k])
                 IN  /\ cf_ret = FileToFolderReturned(failed.kind, NoFolder,
                                                      failed.error_message)
                     /\ cf_log = SubSeq(order, 1, k)
                     /\ \A m \in {order[k]} \cup {Ancestors(order[k])[j] : j \in 1..Len(Ancestors(order[k]))} :
                            EntriesNamed(cf_res, "Folder", decls[m].name) = {}

\* the field of Deep, nested two levels below World, has a type that
\* resolves to nothing: the error is returned after World, Inner and Kind
\* were processed, Color and Other are never reached
C19_Witness ==
    /\ cf_pc = "done"
    /\ cf_ret.kind = "Err"
    /\ cf_ret.folder = NoFolder
    /\ cf_log = <<"World", "Inner", "Kind", "Deep">>
    /\ FieldIndices("World") # {}
    /\ cf_res.entries = <<>>

(***************************************************************************)
(* SpecArgs: args.rs, get_proto_folder_path over the process arguments.    *)
(* An argument is the sequence of the components of the path it spells;    *)
(* the flag is the one component --out.                                    *)
(***************************************************************************)
MaxArgs == 2        \* most arguments after the program name

OutFlag == <<"--out">>

\* args().next(): the path the program was started by
ProgramNames == {<<".", "protobufts">>, <<"target", "debug", "protobufts">>}

ArgChoices ==
    {OutFlag, <<"protos">>, <<".", "protos">>, <<"schemas", "..", "protos">>,
     <<"dist">>, <<".", "gen", ".", "ts">>}

\* path_clean::clean: drops the . components, lets .. cancel the component
\* before it, and spells the empty path .
RECURSIVE CleanInto(_, _)
CleanInto(out, rest) ==
    IF rest = <<>> THEN (IF out = <<>> THEN <<".">> ELSE out)
    ELSE IF Head(rest) = "." THEN CleanInto(out, Tail(rest))
    ELSE IF Head(rest) = ".." /\ out # <<>> /\ Last(out) # ".."
    THEN CleanInto(SubSeq(out, 1, Len(out) - 1), Tail(rest))
    ELSE CleanInto(Append(out, Head(rest)), Tail(rest))

clean(path) == CleanInto(<<>>, path)

\* lines 14-23
CliArguments_default ==
    [proto_folder_path |-> <<".">>, out_folder_path |-> <<".", "out">>]

InitArgs ==
    /\ decls = WorldArena
    /\ files = WorldTree
    /\ ResolverIdle
    /\ GriIdle
    /\ CompileIdle
    /\ TypesIdle
    /\ \E program \in ProgramNames :
       \E arguments \in UNION {[1..n -> ArgChoices] : n \in 0..MaxArgs} :
           argv = <<program>> \o arguments
    /\ arg_pc = "idle"
    /\ arg_i = 0
    /\ arg_state = "ProtoFolderPath"
    /\ arg_res = [proto_folder_path |-> <<>>, out_folder_path |-> <<>>]
    /\ AstIdle

\* lines 50-52: the loop starts at the first element of args()
CallGetProtoFolderPath ==
    /\ arg_pc = "idle"
    /\ arg_res' = CliArguments_default
    /\ arg_state' = "ProtoFolderPath"
    /\ arg_i' = 1
    /\ arg_pc' = "loop"
    /\ UNCHANGED argv
    /\ UNCHANGED <<resolver_vars, gri_vars, compile_vars, types_vars, ast_vars>>

\* lines 53-56
ArgOutFlag ==
    /\ arg_pc = "loop"
    /\ arg_i <= Len(argv)
    /\ argv[arg_i] = OutFlag
    /\ arg_state' = "OutFolderPath"
    /\ arg_i' = arg_i + 1
    /\ UNCHANGED <<argv, arg_pc, arg_res>>
    /\ UNCHANGED <<resolver_vars, gri_vars, compile_vars, types_vars, ast_vars>>

\* lines 58-60
ArgProtoFolderPath ==
    /\ arg_pc = "loop"
    /\ arg_i <= Len(argv)
    /\ argv[arg_i] # OutFlag
    /\ arg_state = "ProtoFolderPath"
    /\ arg_res' = [arg_res EXCEPT !.proto_folder_path = clean(argv[arg_i])]
    /\ arg_i' = arg_i + 1
    /\ UNCHANGED <<argv, arg_pc, arg_state>>
    /\ UNCHANGED <<resolver_vars, gri_vars, compile_vars, types_vars, ast_vars>>

\* lines 61-64
ArgOutFolderPath ==
    /\ arg_pc = "loop"
    /\ arg_i <= Len(argv)
    /\ argv[arg_i] # OutFlag
    /\ arg_state = "OutFolderPath"
    /\ arg_res' = [arg_res EXCEPT !.out_folder_path = clean(argv[arg_i])]
    /\ arg_state' = "ProtoFolderPath"
    /\ arg_i' = arg_i + 1
    /\ UNCHANGED <<argv, arg_pc>>
    /\ UNCHANGED <<resolver_vars, gri_vars, compile_vars, types_vars, ast_vars>>

\* lines 66-69
ReturnArguments ==
    /\ arg_pc = "loop"
    /\ arg_i > Len(argv)
    /\ arg_pc' = "done"
    /\ UNCHANGED <<argv, arg_i, arg_state, arg_res>>
    /\ UNCHANGED <<resolver_vars, gri_vars, compile_vars, types_vars, ast_vars>>

NextArgs ==
    \/ CallGetProtoFolderPath
    \/ ArgOutFlag
    \/ ArgProtoFolderPath
    \/ ArgOutFolderPath
    \/ ReturnArguments

SpecArgs == InitArgs /\ [][NextArgs]_vars

\* the arguments that are neither the flag nor its value, in order
RECURSIVE Positionals(_, _)
Positionals(arguments, after_flag) ==
    IF arguments = <<>> THEN <<>>
    ELSE IF Head(arguments) = OutFlag THEN Positionals(Tail(arguments), TRUE)
    ELSE IF after_flag THEN Positionals(Tail(arguments), FALSE)
    ELSE <<Head(arguments)>> \o Positionals(Tail(arguments), FALSE)

\* the arguments that follow the flag, in order
RECURSIVE OutValues(_, _)
OutValues(arguments, after_flag) ==
    IF arguments = <<>> THEN <<>>
    ELSE IF Head(arguments) = OutFlag THEN OutValues(Tail(arguments), TRUE)
    ELSE IF after_flag THEN <<Head(arguments)>> \o OutValues(Tail(arguments), FALSE)
    ELSE OutValues(Tail(arguments), FALSE)

\* C20: get_proto_folder_path returns as the source schema folder the first
\* positional argument, normalized, and . when the command line has no
\* positional argument; as the destination folder the argument that
\* follows --out, normalized, and ./out when there is none.
C20_CommandLine ==
    arg_pc = "done" =>
        LET positionals == Positionals(Tail(argv), FALSE)
            out_values == OutValues(Tail(argv), FALSE)
        IN  /\ arg_res.proto_folder_path =
                   (IF positionals = <<>> THEN <<".">> ELSE clean(positionals[1]))
            /\ arg_res.out_folder_path =
                   (IF out_values = <<>> THEN <<".", "out">>
                    ELSE clean(out_values[Len(out_values)]))

\* the module specifier of the types module of message to, written from the
\* folder of the types file of message from
TypesModuleFrom(from, to) ==
    CASE from = "World" /\ to = "Other" -> "../Other/types"
      [] from = "World" /\ to = "Inner" -> "./Inner/types"
      [] from = "Other" /\ to = "World" -> "../World/types"
      [] from = "Other" /\ to = "Inner" -> "../World/Inner/types"

\* C21: a field whose type is a message is mapped to a reference to a
\* symbol imported from the types module of that message: for the
\* EncodeInput interface the symbol is <Message>EncodeInput, for the
\* DecodeResult interface it is the declared name of the message. The types
\* file of the message that declares the field holds the import of that
\* symbol from that module, once; a field of the declaring message's own
\* type needs no import.
C21_MessageReference ==
    (AfterField /\ JustMapped.tag = "Message") =>
        LET symbol == IF ty_pc = "encode"
                      THEN message_name_to_encode_type_name(decls[JustMapped.id].name)
                      ELSE decls[JustMapped.id].name
        IN  /\ ty_mapped = TypeReference(symbol)
            /\ JustMapped.id # ty_msg =>
                   Cardinality(Occurrences(
                       ty_file,
                       ImportStatement(symbol, TypesModuleFrom(ty_msg, JustMapped.id))))
                       = 1
            /\ JustMapped.id = ty_msg => ImportsOf(ty_file, symbol) = {}

\* Other has a field of type World: its types file imports WorldEncodeInput
\* for the first interface and World for the second
C21_Witness ==
    /\ ty_msg = "Other"
    /\ ty_pc = "decode"
    /\ AfterField
    /\ JustMapped = MessageType("World")
    /\ ty_mapped = TypeReference("World")
    /\ Occurrences(ty_file, ImportStatement("WorldEncodeInput", "../World/types")) # {}
    /\ Occurrences(ty_file, ImportStatement("World", "../World/types")) # {}

\* the module specifier of the file of enum to, written from the folder of
\* the types file of message from
EnumModuleFrom(from, to) ==
    CASE from = "World" /\ to = "Color" -> "../Color"
      [] from = "World" /\ to = "Kind" -> "./Inner/Kind"
      [] from = "Other" /\ to = "Color" -> "../Color"
      [] from = "Other" /\ to = "Kind" -> "../World/Inner/Kind"

\* types_compiler.rs: a field whose type is an enum is mapped, for the
\* EncodeInput and for the DecodeResult interface alike, to a reference to
\* the enum symbol, and the types file of the declaring message holds the
\* import of that symbol from the file of the enum exactly once
EnumReferenceImported ==
    (AfterField /\ JustMapped.tag = "Enum") =>
        /\ ty_mapped = TypeReference(decls[JustMapped.id].name)
        /\ Cardinality(Occurrences(
               ty_file,
               ImportStatement(decls[JustMapped.id].name,
                               EnumModuleFrom(ty_msg, JustMapped.id)))) = 1
        /\ Cardinality(ImportsOf(ty_file, decls[JustMapped.id].name)) = 1

\* entry i of message m is a field whose type is an enum
FieldOfEnum(m, i) ==
    /\ message_entries[m][i].tag = "Field"
    /\ message_entries[m][i].field_type.tag = "IdPath"
    /\ ~IsScalar(message_entries[m][i].field_type)
    /\ Denoted(m, i).kind = "Ok"
    /\ Denoted(m, i).tag = "DataType"
    /\ decls[Denoted(m, i).id].kind = "Enum"

\* C22: a field whose type is an enum adds to the types file of the message
\* that declares it the import of the enum symbol from the file of the enum,
\* once, and the property of the field is typed by a reference to the enum
\* symbol. Stated of the folder file_to_folder returns.
C22_EnumImported ==
    (cf_pc = "done" /\ cf_ret.kind = "Ok") =>
        \A m \in Messages : \A i \in FieldIndices(m) :
            FieldOfEnum(m, i) =>
                LET types == TypesFile(cf_ret.folder, m)
                    enum_name == decls[Denoted(m, i).id].name
                IN  /\ Cardinality(ImportsOf(types, enum_name)) = 1
                    /\ types.statements[1].members[FieldRank(m, i)].propertyType
                           = TypeReference(enum_name)

\* the numbers of leading segments of the package path of file f that, with
\* the package segments of the import appended, name a package of the tree
ExistingCandidates(f, imprt) ==
    {k \in 0..Len(files[f].path) :
        resolve_subtree(SubSeq(files[f].path, 1, k) \o imprt.packages)}

\* the files called as the import says in the nearest such package
NearestFiles(f, imprt) ==
    IF ExistingCandidates(f, imprt) = {} THEN {}
    ELSE LET k == CHOOSE j \in ExistingCandidates(f, imprt) :
                      \A i \in ExistingCandidates(f, imprt) : i <= j
         IN  {g \in DOMAIN files :
                 /\ files[g].path = SubSeq(files[f].path, 1, k) \o imprt.packages
                 /\ files[g].name = imprt.file_name}

RECURSIVE SubtreeLookups(_, _, _)
SubtreeLookups(f, imprt, k) ==
    IF resolve_subtree(SubSeq(files[f].path, 1, k) \o imprt.packages) \/ k = 0
    THEN 1
    ELSE 1 + SubtreeLookups(f, imprt, k - 1)

FieldScope(m) == BlockScope(decls[m].file, <<m>> \o Reverse(Ancestors(m)))

\* the fields of message m whose type is an identifier path that is not a
\* predefined scalar
NamedTypeFields(m) ==
    {i \in FieldIndices(m) :
        /\ message_entries[m][i].field_type.tag = "IdPath"
        /\ ~IsScalar(message_entries[m][i].field_type)}

\* C25: recursion scope. The field types of a message M nested in the
\* messages S are resolved in the scope of the same file with the stack M
\* followed by S, at every depth: when the compilation succeeds every named
\* field type of every message resolves in that scope, and when it returns
\* an error the error is the one resolving a field type of the message
\* being compiled in that scope gives, its trace naming M, then S
\* innermost first, then the file.
C25_RecursionScope ==
    cf_pc = "done" =>
        /\ cf_ret.kind = "Ok" =>
               \A m \in Messages : \A i \in NamedTypeFields(m) :
                   resolve_path(FieldScope(m), message_entries[m][i].field_type.ids).kind
                       = "Ok"
        /\ cf_ret.kind = "Err" =>
               \E i \in NamedTypeFields(Last(cf_log)) :
                   LET resolved == resolve_path(FieldScope(Last(cf_log)),
                                       message_entries[Last(cf_log)][i].field_type.ids)
                   IN  /\ resolved.kind = "Err"
                       /\ resolved.error_message = cf_ret.error_message

\* World has a field of the enum Color, resolved with the stack World; the
\* field of Deep, nested in Inner nested in World, has a type declared
\* nowhere, and the error names Deep, Inner, World and the file
C25_Witness ==
    /\ cf_pc = "done"
    /\ NamedTypeFields("World") # {}
    /\ cf_log = <<"World", "Inner", "Kind", "Deep">>
    /\ cf_ret.kind = "Err"
    /\ cf_ret.error_message
           = "Could not resolve name Missing\n  in Deep\n  in Inner\n  in World\n  in hello/world.proto"

\* the text of the specifier that climbs ups folders, descends through the
\* folders called names and ends at the file called file_name
Specifier(ups, names, file_name) ==
    (IF ups = 0 THEN "./" ELSE Repeat("../", ups))
    \o JoinWith(names \o <<file_name>>, "/")

\* every way to read a specifier: how many folders it climbs, the folders
\* it descends through and the file it ends at
Readings(specifier) ==
    {r \in [ups : 0..(MaxFolders + 1),
            names : {ComponentNames(folders) : folders \in FolderSeqs},
            file_name : {"types", "defs"}] :
        Specifier(r.ups, r.names, r.file_name) = specifier}

\* C26: relative-import soundness. For a file path from and a declaration
\* path to that denote different files, get_relative_import returns an
\* import whose specifier has exactly one reading; read from the folder
\* that holds from, it climbs as many folders as from has below the deepest
\* folder common to from and to, never more, and from there descends
\* through the remaining folders of to to the file of to.
C26_RelativeImportSound ==
    (/\ gri_result # NoImport
     /\ IsFilePath(gri_from)
     /\ IsDeclarationPath(gri_to)
     /\ Front(gri_to) # gri_from)
    => /\ gri_result.kind = "Import"
       /\ LET from_folders == ComponentNames(Front(gri_from))
              to_folders == ComponentNames(SubSeq(gri_to, 1, Len(gri_to) - 2))
          IN  /\ Cardinality(Readings(gri_result.string_literal)) = 1
              /\ \A r \in Readings(gri_result.string_literal) :
                     /\ r.ups = Len(from_folders) - CommonLen(gri_from, gri_to)
                     /\ SubSeq(from_folders, 1, Len(from_folders) - r.ups) \o r.names
                            = to_folders
                     /\ r.file_name = gri_to[Len(gri_to) - 1].name

\* from Hello/Goodbye/types to Hello/Hello/defs::Test: one folder up, to
\* the common folder Hello, then down through Hello to defs
C26_Witness ==
    /\ gri_from = <<TsPathComponent("Folder", "Hello"), TsPathComponent("Folder", "Goodbye"),
                    TsPathComponent("File", "types")>>
    /\ gri_to = <<TsPathComponent("Folder", "Hello"), TsPathComponent("Folder", "Hello"),
                  TsPathComponent("File", "defs"), TsPathComponent("Enum", "Test")>>
    /\ gri_result.kind = "Import"
    /\ Readings(gri_result.string_literal)
           = {[ups |-> 1, names |-> <<"Hello">>, file_name |-> "defs"]}

-----------------------------------------------------------------------------
\* SpecAst: the TypeScript AST helpers of ast.rs, Type::or and the Folder
\* insertions, each called directly on values drawn from small sets

MaxMembers == 2     \* most members of a union handed to Type::or
MaxCalls == 3       \* most insertion calls applied to the Folder
MaxDepth == 2       \* longest package path handed to insert_folder_by_path

\* Type::UnionType(UnionType { types }), ast.rs lines 173-175 and 222
UnionOf(types) == [tag |-> "UnionType", types |-> types]

\* the values of enum Type the calls are made with: three unit variants, the
\* unions UnionType::from builds from any vector of them, and unions that
\* hold a union
TypeChoices ==
    LET atoms == {Type("Never"), Type("Number"), Type("Null")}
        flat == UNION {[1..k -> atoms] : k \in 0..MaxMembers}
    IN  atoms \cup {UnionOf(types) : types \in flat}
              \cup {UnionOf(<<UnionOf(<<x, y>>), z>>) : x \in atoms, y \in atoms,
                                                        z \in atoms}

FolderNames == {"a", "b"}

PackagePaths == UNION {[1..k -> FolderNames] : k \in 0..MaxDepth}

\* Folder::insert_folder that pushes a new folder without searching
insert_folder_always_pushes(self, name) ==
    [folder |-> Folder(self.name, Append(self.entries, Folder(name, <<>>))),
     index |-> Len(self.entries)]

\* Folder::insert_folder, ast.rs lines 501-511: the folder afterwards and the
\* returned index, counted from 0 as in the source
insert_folder(self, name) ==
    LET found == {i \in 1..Len(self.entries) :
                     /\ self.entries[i].tag = "Folder"
                     /\ self.entries[i].name = name}
    IN  IF found # {}
        THEN [folder |-> self, index |-> Min(found) - 1]
        ELSE [folder |-> Folder(self.name, Append(self.entries, Folder(name, <<>>))),
              index |-> Len(self.entries)]

\* Folder::insert_folder_by_path, ast.rs lines 512-519
RECURSIVE insert_folder_by_path(_, _)
insert_folder_by_path(self, package_path) ==
    IF package_path = <<>> THEN self
    ELSE \* lines 515-517: descend into the entry insert_folder returned
         TheOnly({ Folder(r.folder.name,
                          [r.folder.entries EXCEPT ![r.index + 1] =
                              insert_folder_by_path(@, Tail(package_path))])
                   : r \in {insert_folder(self, Head(package_path))} })

\* Folder::new, ast.rs lines 494-499, and nothing called yet
InitAst ==
    /\ decls = WorldArena
    /\ files = WorldTree
    /\ ResolverIdle
    /\ GriIdle
    /\ CompileIdle
    /\ TypesIdle
    /\ ArgsIdle
    /\ AstIdle

\* a call of Type::or, ast.rs lines 258-263
CallOr ==
    /\ or_res.tag = "none"
    /\ fd_calls = 0
    /\ \E a \in TypeChoices : \E b \in TypeChoices :
           /\ or_self' = a
           /\ or_another' = b
           /\ or_res' = Type_or(a, b)
    /\ UNCHANGED <<resolver_vars, gri_vars, compile_vars, types_vars, args_vars,
                   fd_root, fd_prev, fd_call, fd_calls>>

\* a call of Folder::insert_folder on the folder, ast.rs lines 501-511
CallInsertFolder ==
    /\ or_res.tag = "none"
    /\ fd_calls < MaxCalls
    /\ \E name \in FolderNames : \E r \in {insert_folder(fd_root, name)} :
           /\ fd_root' = r.folder
           /\ fd_call' = [op |-> "insert_folder", name |-> name, index |-> r.index]
    /\ fd_prev' = fd_root
    /\ fd_calls' = fd_calls + 1
    /\ UNCHANGED <<resolver_vars, gri_vars, compile_vars, types_vars, args_vars,
                   or_self, or_another, or_res>>

\* a call of Folder::insert_folder_by_path on the folder, ast.rs lines 512-519
CallInsertFolderByPath ==
    /\ or_res.tag = "none"
    /\ fd_calls < MaxCalls
    /\ \E package_path \in PackagePaths :
           /\ fd_root' = insert_folder_by_path(fd_root, package_path)
           /\ fd_call' = [op |-> "insert_folder_by_path",
                          package_path |-> package_path]
    /\ fd_prev' = fd_root
    /\ fd_calls' = fd_calls + 1
    /\ UNCHANGED <<resolver_vars, gri_vars, compile_vars, types_vars, args_vars,
                   or_self, or_another, or_res>>

NextAst == CallOr \/ CallInsertFolder \/ CallInsertFolderByPath

SpecAst == InitAst /\ [][NextAst]_vars

\* the members a type contributes to a union, in order: a union contributes
\* what its members contribute, Never contributes nothing
RECURSIVE Leaves(_)
Leaves(t) ==
    IF t.tag = "Never" THEN <<>>
    ELSE IF t.tag = "UnionType"
    THEN IF t.types = <<>> THEN <<>>
         ELSE Leaves(Head(t.types)) \o Leaves(UnionOf(Tail(t.types)))
    ELSE <<t>>

\* a sequence without the later occurrences of its elements
RECURSIVE FirstOccurrences(_)
FirstOccurrences(s) ==
    IF s = <<>> THEN <<>>
    ELSE IF \E i \in 1..(Len(s) - 1) : s[i] = Last(s)
    THEN FirstOccurrences(Front(s))
    ELSE Append(FirstOccurrences(Front(s)), Last(s))

\* the members of a type read as a union
MembersOf(t) ==
    IF t.tag = "UnionType" THEN t.types
    ELSE IF t.tag = "Never" THEN <<>>
    ELSE <<t>>

\* no union in the type holds two equal members
RECURSIVE NoDuplicateMembers(_)
NoDuplicateMembers(t) ==
    t.tag = "UnionType" =>
        /\ \A i \in 1..Len(t.types) : \A j \in 1..Len(t.types) :
               i # j => t.types[i] # t.types[j]
        /\ \A i \in 1..Len(t.types) : NoDuplicateMembers(t.types[i])

\* a type Type::or can return: not a union, or a union of two or more
\* members, none of them Never or a union, no two of them equal
IsNormal(t) ==
    t.tag = "UnionType" =>
        /\ Len(t.types) >= 2
        /\ \A i \in 1..Len(t.types) : t.types[i].tag \notin {"Never", "UnionType"}
        /\ \A i \in 1..Len(t.types) : \A j \in 1..Len(t.types) :
               i # j => t.types[i] # t.types[j]

\* what a.or(b) holds, whatever a and b are: no Never member, no nested
\* union, no two equal members, the members of a then b in the order of
\* their first occurrence, Never for none and the member itself for one
WidenedMembers ==
    LET members == MembersOf(or_res)
        expected == FirstOccurrences(Leaves(or_self) \o Leaves(or_another))
    IN  /\ \A i \in 1..Len(members) : members[i].tag \notin {"Never", "UnionType"}
        /\ \A i \in 1..Len(members) : \A j \in 1..Len(members) :
               i # j => members[i] # members[j]
        /\ members = expected
        /\ Len(expected) = 0 => or_res = Type("Never")
        /\ Len(expected) = 1 => or_res = expected[1]
        /\ Len(expected) >= 2 => or_res.tag = "UnionType"

\* C27 as stated: for all types a and b without duplicate union members,
\* a.or(b) has no Never member, no nested union and no two equal members, in
\* first-occurrence order, collapsing to Never or to its single member, and
\* a.or(a) = a and a.or(Never) = Never.or(a) = a
C27_UnionWidening ==
    (/\ or_res.tag # "none"
     /\ NoDuplicateMembers(or_self)
     /\ NoDuplicateMembers(or_another)) =>
        /\ WidenedMembers
        /\ or_another = or_self => or_res = or_self
        /\ or_another = Type("Never") => or_res = or_self
        /\ or_self = Type("Never") => or_res = or_another

\* C27 amended: for all types a and b, a.or(b) has no Never member, no nested
\* union and no two equal members, in first-occurrence order, collapsing to
\* Never or to its single member; a.or(a) = a and a.or(Never) = Never.or(a) = a
\* hold when a is not a union or is a union of two or more distinct members
\* that are neither Never nor unions, and for any other a all three are the
\* union of the members a contributes, collapsed the same way
C27_UnionWideningNormal ==
    or_res.tag # "none" =>
        /\ WidenedMembers
        /\ IsNormal(or_res)
        /\ (or_another = or_self /\ IsNormal(or_self)) => or_res = or_self
        /\ (or_another = Type("Never") /\ IsNormal(or_self)) => or_res = or_self
        /\ (or_self = Type("Never") /\ IsNormal(or_another)) => or_res = or_another
        /\ or_another \in {or_self, Type("Never")} =>
               MembersOf(or_res) = FirstOccurrences(Leaves(or_self))
        /\ or_self = Type("Never") =>
               MembersOf(or_res) = FirstOccurrences(Leaves(or_another))

\* a union widened by a union that nests the same members and Never: the
\* result is the first union, unchanged
C27_Witness ==
    /\ or_self = UnionOf(<<Type("Number"), Type("Null")>>)
    /\ or_another = UnionOf(<<UnionOf(<<Type("Null"), Type("Number")>>),
                              Type("Never")>>)
    /\ or_res = or_self

\* no folder of the tree holds two sub-folder entries with the same name
RECURSIVE NoSameNamedFolders(_)
NoSameNamedFolders(folder) ==
    /\ \A i \in 1..Len(folder.entries) : \A j \in 1..Len(folder.entries) :
           (/\ i # j
            /\ folder.entries[i].tag = "Folder"
            /\ folder.entries[j].tag = "Folder") =>
               folder.entries[i].name # folder.entries[j].name
    /\ \A i \in 1..Len(folder.entries) :
           folder.entries[i].tag = "Folder" => NoSameNamedFolders(folder.entries[i])

\* the folder holds a sub-folder entry with this name
HasFolder(folder, name) ==
    \E i \in 1..Len(folder.entries) :
        folder.entries[i].tag = "Folder" /\ folder.entries[i].name = name

\* C28: after any sequence of insert_folder / insert_folder_by_path calls on
\* an empty Folder no folder holds two sub-folders of one name;
\* insert_folder(name) returns the index of a Folder entry named name, appends
\* exactly one entry when there was none and otherwise leaves the entries as
\* they were; a second insert_folder_by_path(p) changes nothing
C28_FolderInsertion ==
    /\ NoSameNamedFolders(fd_root)
    /\ fd_call.op = "insert_folder" =>
           /\ fd_call.index + 1 \in 1..Len(fd_root.entries)
           /\ fd_root.entries[fd_call.index + 1].tag = "Folder"
           /\ fd_root.entries[fd_call.index + 1].name = fd_call.name
           /\ fd_root.name = fd_prev.name
           /\ IF HasFolder(fd_prev, fd_call.name)
              THEN fd_root.entries = fd_prev.entries
              ELSE /\ Len(fd_root.entries) = Len(fd_prev.entries) + 1
                   /\ SubSeq(fd_root.entries, 1, Len(fd_prev.entries))
                          = fd_prev.entries
    /\ fd_call.op = "insert_folder_by_path" =>
           insert_folder_by_path(fd_root, fd_call.package_path) = fd_root

\* insert_folder_by_path(a, b) on a folder that holds b and an empty a: the
\* entries b and a stay where they were and a gains the sub-folder b
C28_Witness ==
    /\ fd_call = [op |-> "insert_folder_by_path", package_path |-> <<"a", "b">>]
    /\ fd_prev = Folder("", <<Folder("b", <<>>), Folder("a", <<>>)>>)
    /\ fd_root = Folder("", <<Folder("b", <<>>),
                              Folder("a", <<Folder("b", <<>>)>>)>>)

====
